---- MODULE Spec2Model ----
(***************************************************************************)
(* A model of the SGNL content extractor (src/app/extractor.py): the       *)
(* metric adapters, the density combiner, the signal scorer, the domain    *)
(* extraction and the extraction orchestrator.                             *)
(*                                                                         *)
(* Numbers.  The combiner computes with Python floats (IEEE-754 binary     *)
(* floating point, round-to-nearest-even).  The model keeps that           *)
(* arithmetic and narrows only its width: a float is an integer number of  *)
(* quanta of 2^-FracBits and carries at most Precision significant bits;   *)
(* every operation computes the exact result and rounds it to the nearest  *)
(* representable value, ties to even.  The signal scorer works on decimal  *)
(* constants with at most four fractional digits; its values are kept as   *)
(* exact integers in units of 1/SCALE.                                     *)
(*                                                                         *)
(* Values.  Optional[x] is a sequence of length at most one (<<>> is       *)
(* None); a dict is a function on its set of keys; a str that the code     *)
(* inspects character by character is a sequence of one-character strings; *)
(* the outcome of a call is Ret(v) or Raise(e).                            *)
(***************************************************************************)
EXTENDS Integers, Sequences, FiniteSets, TLC

VARIABLES
    env,                   \* os.environ: a dict from names to strings
    IDEADENSITY_AVAILABLE, \* module flag set by the import of ideadensity
    TEXTSTAT_AVAILABLE,    \* module flag set by the import of textstat
    depid,                 \* the module global depid: <<>> when it is None
    textstat,              \* the module global textstat: <<>> when it is None
    call,                  \* the arguments of the call under way
    ret,                   \* <<>> before the call returns, <<outcome>> after
    log,                   \* the library functions and stages invoked, in order
    prev,                  \* what the previous call of this execution observed
    pc,                    \* the position of the caller
    _engine,               \* analytics_middleware._engine: <<>> when it is None
    _SessionLocal,         \* analytics_middleware._SessionLocal: <<>> when it is None
    visitor_logs,          \* the rows of the visitor table in the database
    utcnow                 \* the clock datetime.utcnow() reads

vars == <<env, IDEADENSITY_AVAILABLE, TEXTSTAT_AVAILABLE, depid, textstat,
          call, ret, log, prev, pc, _engine, _SessionLocal, visitor_logs, utcnow>>

modvars == <<IDEADENSITY_AVAILABLE, TEXTSTAT_AVAILABLE, depid, textstat>>

\* the state of the analytics: the lazily created engine and session factory,
\* the visitor table and the clock
dbvars == <<_engine, _SessionLocal, visitor_logs, utcnow>>

----------------------------------------------------------------------------
(* Outcomes of a call and optional values. *)

Ret(v) == [kind |-> "return", value |-> v]

Raise(e) == [kind |-> "raise", exc |-> e]

None == <<>>

Some(v) == <<v>>

----------------------------------------------------------------------------
(* Floating point of reduced width. *)

\* significant bits of a float (53 in the program's doubles)
Precision == 9

\* a quantum is 2^-FracBits: values from 1/4 upwards are normal numbers
FracBits == Precision + 2

RECURSIVE Pow2(_)
Pow2(k) == IF k = 0 THEN 1 ELSE 2 * Pow2(k - 1)

\* the float 1.0, in quanta
One == Pow2(FracBits)

\* the number of bits of the integer part of n/d, for n >= 0 and d > 0
RECURSIVE BitLen(_, _, _)
BitLen(n, d, k) == IF n \div d < Pow2(k) THEN k ELSE BitLen(n, d, k + 1)

\* n/d quanta (n >= 0, d > 0) rounded to Precision significant bits, ties to even
RoundPos(n, d) ==
    LET bl == BitLen(n, d, 0)
        s  == IF bl > Precision THEN Pow2(bl - Precision) ELSE 1
        q  == n \div (d * s)
        r  == n - q * d * s
        up == (2 * r > d * s) \/ (2 * r = d * s /\ q % 2 = 1)
    IN  (q + (IF up THEN 1 ELSE 0)) * s

\* the float nearest to the rational n/d quanta (d # 0)
Round(n, d) ==
    LET nn == IF d < 0 THEN -n ELSE n
        dd == IF d < 0 THEN -d ELSE d
    IN  IF nn < 0 THEN -RoundPos(-nn, dd) ELSE RoundPos(nn, dd)

\* the float a decimal literal n/d denotes
Fl(n, d) == Round(n * One, d)

FAdd(a, b) == Round(a + b, 1)

FSub(a, b) == Round(a - b, 1)

FMul(a, b) == Round(a * b, One)

FDiv(a, b) == Round(a * One, b)

\* Python's max(lo, min(hi, x)) on floats
Clamp(lo, hi, x) ==
    LET m == IF x < hi THEN x ELSE hi
    IN  IF m > lo THEN m ELSE lo

----------------------------------------------------------------------------
(* The process environment and float(str). *)

WeightNames == {"CPIDR_WEIGHT", "DEPID_WEIGHT", "READABILITY_WEIGHT"}

EnvNames == WeightNames \cup {"DENSITY_THRESHOLD"}

\* the decimal strings the model uses, each with the rational it denotes
DecimalValue ==
    [s \in {"0.5", "0.3", "0.2", "0.45", "1.0", "-1.0", "0.0", "0.001"} |->
        CASE s = "0.5"  -> <<1, 2>>
          [] s = "0.3"  -> <<3, 10>>
          [] s = "0.2"  -> <<1, 5>>
          [] s = "0.45" -> <<9, 20>>
          [] s = "1.0"  -> <<1, 1>>
          [] s = "-1.0" -> <<-1, 1>>
          [] s = "0.0"  -> <<0, 1>>
          [] s = "0.001" -> <<1, 1000>>]

\* float(s): the nearest float of a decimal string, ValueError for any other
float(s) ==
    IF s \in DOMAIN DecimalValue
    THEN Ret(Fl(DecimalValue[s][1], DecimalValue[s][2]))
    ELSE Raise("ValueError")

\* os.getenv(name, default)
getenv(name, default) == IF name \in DOMAIN env THEN env[name] ELSE default

\* the values an environment variable is given in the model
EnvStrings == {"1.0", "-1.0", "0.3", "0.001", "abc"}

Environments(names) ==
    UNION {[D -> EnvStrings] : D \in SUBSET names}

----------------------------------------------------------------------------
(* calculate_combined_density, src/app/extractor.py:133-177 *)

ReadabilityKeys ==
    {"flesch_reading_ease", "flesch_kincaid_grade", "gunning_fog",
     "automated_readability_index", "coleman_liau_index"}

\* lines 150-152: the three weights as read at this call
cpidr_weight == float(getenv("CPIDR_WEIGHT", "0.5"))

depid_weight == float(getenv("DEPID_WEIGHT", "0.3"))

readability_weight == float(getenv("READABILITY_WEIGHT", "0.2"))

\* the total weight kept in a module global that the previous call has
\* already reduced, instead of a fresh local
total_weight_kept(wc, wd, wr) ==
    IF prev # None /\ prev[1].total_weight # None
    THEN prev[1].total_weight[1]
    ELSE FAdd(FAdd(wc, wd), wr)

\* line 154
total_weight_all(wc, wd, wr) == FAdd(FAdd(wc, wd), wr)

\* line 170
reading_difficulty(flesch_ease) ==
    Clamp(0, One, FDiv(FSub(Fl(90, 1), flesch_ease), Fl(90, 1)))

\* lines 160-163 and 166-173: the weight left after the missing metrics
surviving_weight(wc, wd, wr, depid_density, readability) ==
    LET t0 == total_weight_all(wc, wd, wr)
        t1 == IF depid_density # None THEN t0 ELSE FSub(t0, wd)
    IN  IF "flesch_reading_ease" \in DOMAIN readability
        THEN t1 ELSE FSub(t1, wr)

\* lines 157, 161, 171: the weighted sum
weighted_sum(wc, wd, wr, cpidr_density, depid_density, readability) ==
    LET c0 == FMul(cpidr_density, wc)
        c1 == IF depid_density # None
              THEN FAdd(c0, FMul(depid_density[1], wd)) ELSE c0
    IN  IF "flesch_reading_ease" \in DOMAIN readability
        THEN FAdd(c1, FMul(reading_difficulty(readability["flesch_reading_ease"]), wr))
        ELSE c1

\* the combiner without its final clamp
combine_unclamped(wc, wd, wr, cpidr_density, depid_density, readability) ==
    LET total    == surviving_weight(wc, wd, wr, depid_density, readability)
        combined == weighted_sum(wc, wd, wr, cpidr_density, depid_density, readability)
    IN  IF total > 0 THEN FDiv(combined, total) ELSE cpidr_density

\* lines 175-177
combine(wc, wd, wr, cpidr_density, depid_density, readability) ==
    LET total    == surviving_weight(wc, wd, wr, depid_density, readability)
        combined == weighted_sum(wc, wd, wr, cpidr_density, depid_density, readability)
    IN  IF total > 0
        THEN Clamp(0, One, FDiv(combined, total))
        ELSE cpidr_density

calculate_combined_density(cpidr_density, depid_density, readability) ==
    IF cpidr_weight.kind = "raise" THEN cpidr_weight
    ELSE IF depid_weight.kind = "raise" THEN depid_weight
    ELSE IF readability_weight.kind = "raise" THEN readability_weight
    ELSE Ret(combine(cpidr_weight.value, depid_weight.value,
                     readability_weight.value,
                     cpidr_density, depid_density, readability))

----------------------------------------------------------------------------
(* The combiner as a pure function of its arguments and the environment:   *)
(* the initial states draw the arguments and the environment, Combine      *)
(* applies the function.                                                   *)

CpidrInputs == {Fl(0, 1), Fl(1, 4), Fl(1, 2), Fl(7, 10), Fl(1, 1)}

DepidInputs == {None, Some(Fl(0, 1)), Some(Fl(3, 10)), Some(Fl(1, 1))}

\* Flesch reading ease is not confined to 0..100
FleschInputs == {Fl(-10, 1), Fl(0, 1), Fl(45, 1), Fl(90, 1), Fl(120, 1)}

FullReadability(f) ==
    [k \in ReadabilityKeys |-> IF k = "flesch_reading_ease" THEN f ELSE Fl(10, 1)]

ReadabilityInputs ==
    {[k \in {} |-> 0], [k \in {"gunning_fog"} |-> Fl(12, 1)]}
        \cup {FullReadability(f) : f \in FleschInputs}

CombineCalls ==
    [op : {"calculate_combined_density"}, cpidr_density : CpidrInputs,
     depid_density : DepidInputs, readability : ReadabilityInputs]

\* the textstat module after its import: its language setting is the
\* library's default
TextstatImported == [lang |-> "en_US"]

\* textstat.set_lang(lang): the module-wide language setting is overwritten
set_lang(module, lang) == [module EXCEPT !.lang = lang]

\* a readability call that sets the language of the text it is given
lang_of_text(text) == text.lang

\* the language every call of calculate_readability_scores sets (line 118)
lang_for(text) == "en"

\* the module global textstat after a call of calculate_readability_scores
\* that made the library calls in calls
textstat_after(calls, text) ==
    IF \E i \in 1..Len(calls) : calls[i] = "textstat"
    THEN Some(set_lang(textstat[1], lang_for(text)))
    ELSE textstat

\* analytics_middleware as imported (lines 15-16), with an empty visitor table
AnalyticsIdle ==
    /\ _engine = None
    /\ _SessionLocal = None
    /\ visitor_logs = <<>>
    /\ utcnow = 0

\* the module as imported with both libraries present
ModuleLoaded ==
    /\ IDEADENSITY_AVAILABLE = TRUE
    /\ TEXTSTAT_AVAILABLE = TRUE
    /\ depid = Some("ideadensity.depid")
    /\ textstat = Some(TextstatImported)

InitCombine ==
    /\ env \in Environments(WeightNames)
    /\ AnalyticsIdle
    /\ ModuleLoaded
    /\ call \in CombineCalls
    /\ ret = None
    /\ log = <<>>
    /\ prev = None
    /\ pc = "call"

Combine ==
    /\ pc = "call"
    /\ call.op = "calculate_combined_density"
    /\ ret' = Some(calculate_combined_density(call.cpidr_density,
                                              call.depid_density, call.readability))
    /\ pc' = "done"
    /\ UNCHANGED <<dbvars, env, modvars, call, log, prev>>

NextCombine == Combine

SpecCombine == InitCombine /\ [][NextCombine]_vars

\* every weight string the call reads denotes a number
WeightsNumeric ==
    /\ cpidr_weight.kind = "return"
    /\ depid_weight.kind = "return"
    /\ readability_weight.kind = "return"

CombineDone == pc = "done" /\ call.op = "calculate_combined_density"

\* C6: calculate_combined_density returns a value within [0,1] for every
\* cpidr in [0,1], every depid in [0,1] or None, every readability map (with
\* or without flesch_reading_ease, Flesch below 0 or above 100 included) and
\* every configuration of the three weights (any numbers: positive, zero or
\* negative).
C6_CombinedInUnitInterval ==
    (CombineDone /\ WeightsNumeric) =>
        /\ ret[1].kind = "return"
        /\ ret[1].value >= 0
        /\ ret[1].value <= One

\* C6 witness: a negative weight, a Flesch value above 100, a result in range
C6_Witness ==
    /\ CombineDone
    /\ "DEPID_WEIGHT" \in DOMAIN env /\ env["DEPID_WEIGHT"] = "-1.0"
    /\ call.depid_density = Some(Fl(1, 1))
    /\ "flesch_reading_ease" \in DOMAIN call.readability
    /\ call.readability["flesch_reading_ease"] = Fl(120, 1)
    /\ ret[1].kind = "return"
    /\ ret[1].value \in 0..One

\* C8: with depid None and no flesch_reading_ease key the combiner returns
\* cpidr unchanged, for every cpidr in [0,1] and every weight configuration.
C8_ReducesToCpidr ==
    (/\ CombineDone
     /\ WeightsNumeric
     /\ call.depid_density = None
     /\ "flesch_reading_ease" \notin DOMAIN call.readability)
        => ret[1] = Ret(call.cpidr_density)

----------------------------------------------------------------------------
(* Repeated calls of the combiner in one execution, with the environment   *)
(* written between them (os.environ is process-wide mutable state).        *)

ReconfigCalls ==
    [op : {"calculate_combined_density"},
     cpidr_density : {Fl(7, 10)},
     depid_density : {None, Some(Fl(3, 10))},
     readability : {[k \in {} |-> 0], FullReadability(Fl(45, 1))}]

\* the three weight strings a call reads, defaults included
WeightStrings ==
    [n \in WeightNames |->
        getenv(n, CASE n = "CPIDR_WEIGHT" -> "0.5"
                    [] n = "DEPID_WEIGHT" -> "0.3"
                    [] n = "READABILITY_WEIGHT" -> "0.2")]

\* the environment writes explored in one execution
MaxWrites == 2

\* the process starts with none of the weight variables set
InitReconfig ==
    /\ env = [n \in {} |-> ""]
    /\ AnalyticsIdle
    /\ ModuleLoaded
    /\ call \in ReconfigCalls
    /\ ret = None
    /\ log = <<>>
    /\ prev = None
    /\ pc = "idle"

\* one more call with the same arguments; prev keeps what the call before
\* this one read and returned
CombineAgain ==
    /\ pc = "idle"
    /\ call.op = "calculate_combined_density"
    /\ LET out == calculate_combined_density(call.cpidr_density,
                                             call.depid_density, call.readability)
       IN  /\ ret' = Some([weights |-> WeightStrings, outcome |-> out,
                           total_weight |->
                               IF WeightsNumeric
                               THEN Some(surviving_weight(cpidr_weight.value,
                                        depid_weight.value, readability_weight.value,
                                        call.depid_density, call.readability))
                               ELSE None])
           /\ prev' = ret
    /\ UNCHANGED <<dbvars, env, modvars, call, log, pc>>

\* os.environ[name] = value
putenv(name, value) ==
    /\ pc = "idle"
    /\ Len(log) < MaxWrites
    /\ getenv(name, "") # value
    /\ env' = [n \in DOMAIN env \cup {name} |-> IF n = name THEN value ELSE env[n]]
    /\ log' = Append(log, "os.environ")
    /\ UNCHANGED <<dbvars, modvars, call, ret, prev, pc>>

\* del os.environ[name]
unsetenv(name) ==
    /\ pc = "idle"
    /\ Len(log) < MaxWrites
    /\ name \in DOMAIN env
    /\ env' = [n \in DOMAIN env \ {name} |-> env[n]]
    /\ log' = Append(log, "os.environ")
    /\ UNCHANGED <<dbvars, modvars, call, ret, prev, pc>>

NextReconfig ==
    \/ CombineAgain
    \/ \E name \in WeightNames, value \in EnvStrings : putenv(name, value)
    \/ \E name \in WeightNames : unsetenv(name)

SpecReconfig == InitReconfig /\ [][NextReconfig]_vars

\* C7 as claimed: two calls with identical arguments return identical results
\* in every execution, a change of CPIDR_WEIGHT, DEPID_WEIGHT or
\* READABILITY_WEIGHT between the two calls included.
C7_SameResultAcrossEnvChange ==
    (prev # None /\ ret # None) => ret[1].outcome = prev[1].outcome

\* C7 amended: the weights are read from the environment at every call; two
\* calls with identical arguments return identical results whenever the three
\* weight values are the same at both calls.
C7_SameResultUnderSameWeights ==
    (prev # None /\ ret # None /\ ret[1].weights = prev[1].weights)
        => ret[1].outcome = prev[1].outcome

\* C7 witness: two calls under the same weights after the environment was
\* written, both returning the same value
C7_Witness ==
    /\ prev # None /\ ret # None
    /\ ret[1].weights = prev[1].weights
    /\ ret[1].weights["DEPID_WEIGHT"] = "1.0"
    /\ ret[1].outcome.kind = "return"
    /\ ret[1].outcome = prev[1].outcome

----------------------------------------------------------------------------
(* The metric adapters, src/app/extractor.py:40-130.  A text is a sequence *)
(* of characters; what the library does when it is called (returns a raw   *)
(* value, returns something that is no number, raises) is an input.        *)

Whitespace == {" ", "\t", "\n"}

RECURSIVE lstrip(_)
lstrip(s) == IF s # <<>> /\ Head(s) \in Whitespace THEN lstrip(Tail(s)) ELSE s

RECURSIVE rstrip(_)
rstrip(s) ==
    IF s # <<>> /\ s[Len(s)] \in Whitespace
    THEN rstrip(SubSeq(s, 1, Len(s) - 1)) ELSE s

\* str.strip()
strip(s) == rstrip(lstrip(s))

\* the guard without the strip
too_short_unstripped(text) == text = <<>> \/ Len(text) < 50

\* lines 53, 82, 110: not text or len(text.strip()) < 50
too_short(text) == text = <<>> \/ Len(strip(text)) < 50

\* the adapter letting the library's exception through
calculate_density_raising(text, cpidr_does) ==
    IF too_short(text) THEN [out |-> Ret(0), calls |-> <<>>]
    ELSE IF ~IDEADENSITY_AVAILABLE THEN [out |-> Ret(Fl(1, 2)), calls |-> <<>>]
    ELSE [out |-> IF cpidr_does.kind = "return"
                  THEN Ret(Clamp(0, One, cpidr_does.value))
                  ELSE Raise("Exception"),
          calls |-> <<"cpidr">>]

\* lines 40-69; the result with the library calls made
calculate_density(text, cpidr_does) ==
    IF too_short(text) THEN [out |-> Ret(0), calls |-> <<>>]
    ELSE IF ~IDEADENSITY_AVAILABLE THEN [out |-> Ret(Fl(1, 2)), calls |-> <<>>]
    ELSE [out |-> IF cpidr_does.kind = "return"
                  THEN Ret(Clamp(0, One, cpidr_does.value))
                  ELSE Ret(Fl(1, 2)),
          calls |-> <<"cpidr">>]

\* lines 72-97
calculate_depid_density(text, depid_does) ==
    IF too_short(text) THEN [out |-> Ret(None), calls |-> <<>>]
    ELSE IF ~IDEADENSITY_AVAILABLE \/ depid = None
    THEN [out |-> Ret(None), calls |-> <<>>]
    ELSE [out |-> IF depid_does.kind = "return"
                  THEN Ret(Some(Clamp(0, One, depid_does.value)))
                  ELSE Ret(None),
          calls |-> <<"depid">>]

\* lines 100-130
calculate_readability_scores(text, textstat_does) ==
    IF too_short(text) THEN [out |-> Ret([k \in {} |-> 0]), calls |-> <<>>]
    ELSE IF ~TEXTSTAT_AVAILABLE \/ textstat = None
    THEN [out |-> Ret([k \in {} |-> 0]), calls |-> <<>>]
    ELSE [out |-> IF textstat_does.kind = "return"
                  THEN Ret(textstat_does.value)
                  ELSE Ret([k \in {} |-> 0]),
          calls |-> <<"textstat">>]

\* what a library call does: it raises, it returns something the adapter
\* cannot convert (float() or the tuple unpacking raises), or it returns
Raises == [kind |-> "raise", exc |-> "Exception"]

Unusable == [kind |-> "unusable"]

CpidrBehaviours ==
    {Raises, Unusable} \cup {Ret(v) : v \in {Fl(-1, 2), Fl(3, 10), Fl(4, 5), Fl(3, 2)}}

DepidBehaviours ==
    {Raises, Unusable} \cup {Ret(v) : v \in {Fl(-1, 2), Fl(3, 10), Fl(3, 2)}}

TextstatBehaviours ==
    {Raises} \cup {Ret(FullReadability(f)) : f \in {Fl(45, 1), Fl(120, 1)}}

\* the longest run of whitespace put around a text
MaxPad == 1

\* how far around the 50-character threshold the text lengths go
MaxNear == 2

RECURSIVE Rep(_, _)
Rep(c, n) == IF n = 0 THEN <<>> ELSE <<c>> \o Rep(c, n - 1)

\* 'test content', the 12-character text of test_calculate_density_normalization
TestContent == <<"t", "e", "s", "t", " ", "c", "o", "n", "t", "e", "n", "t">>

BodyLengths == (0..MaxNear) \cup ((50 - MaxNear)..(50 + MaxNear))

Texts ==
    {Rep(" ", l) \o Rep("x", n) \o Rep(" ", t) :
        l \in 0..MaxPad, n \in BodyLengths, t \in 0..MaxPad}
    \cup {TestContent}

InitAdapters ==
    /\ env = [n \in {} |-> ""]
    /\ AnalyticsIdle
    /\ IDEADENSITY_AVAILABLE \in BOOLEAN
    /\ TEXTSTAT_AVAILABLE \in BOOLEAN
    /\ depid \in {None, Some("ideadensity.depid")}
    /\ textstat \in {None, Some(TextstatImported)}
    /\ call \in [op : {"adapter"}, text : Texts]
    /\ ret = None
    /\ log = <<>>
    /\ prev = None
    /\ pc = "call"

CallDensity ==
    /\ pc = "call" /\ call.op = "adapter"
    /\ \E does \in CpidrBehaviours :
         LET r == calculate_density(call.text, does)
         IN  /\ ret' = Some([fn |-> "calculate_density", lib |-> does, outcome |-> r.out])
             /\ log' = log \o r.calls
    /\ pc' = "done"
    /\ UNCHANGED <<dbvars, env, modvars, call, prev>>

CallDepid ==
    /\ pc = "call" /\ call.op = "adapter"
    /\ \E does \in DepidBehaviours :
         LET r == calculate_depid_density(call.text, does)
         IN  /\ ret' = Some([fn |-> "calculate_depid_density", lib |-> does,
                             outcome |-> r.out])
             /\ log' = log \o r.calls
    /\ pc' = "done"
    /\ UNCHANGED <<dbvars, env, modvars, call, prev>>

CallReadability ==
    /\ pc = "call" /\ call.op = "adapter"
    /\ \E does \in TextstatBehaviours :
         LET r == calculate_readability_scores(call.text, does)
         IN  /\ ret' = Some([fn |-> "calculate_readability_scores", lib |-> does,
                             outcome |-> r.out])
             /\ log' = log \o r.calls
             /\ textstat' = textstat_after(r.calls, call.text)
    /\ pc' = "done"
    /\ UNCHANGED <<dbvars, env, IDEADENSITY_AVAILABLE, TEXTSTAT_AVAILABLE, depid, call, prev>>

NextAdapters == CallDensity \/ CallDepid \/ CallReadability

SpecAdapters == InitAdapters /\ [][NextAdapters]_vars

AdapterDone == pc = "done" /\ call.op = "adapter"

\* the number of characters left once the whitespace at both ends is removed
RECURSIVE LeadingBlanks(_)
LeadingBlanks(s) ==
    IF s # <<>> /\ Head(s) \in Whitespace THEN 1 + LeadingBlanks(Tail(s)) ELSE 0

RECURSIVE TrailingBlanks(_)
TrailingBlanks(s) ==
    IF s # <<>> /\ s[Len(s)] \in Whitespace
    THEN 1 + TrailingBlanks(SubSeq(s, 1, Len(s) - 1)) ELSE 0

TrimmedLength(s) ==
    IF LeadingBlanks(s) = Len(s) THEN 0
    ELSE Len(s) - LeadingBlanks(s) - TrailingBlanks(s)

\* the degraded value of each adapter
Degraded(fn, neutral) ==
    CASE fn = "calculate_density" -> Ret(neutral)
      [] fn = "calculate_depid_density" -> Ret(None)
      [] fn = "calculate_readability_scores" -> Ret([k \in {} |-> 0])

LibraryAbsent(fn) ==
    CASE fn = "calculate_density" -> ~IDEADENSITY_AVAILABLE
      [] fn = "calculate_depid_density" -> ~IDEADENSITY_AVAILABLE \/ depid = None
      [] fn = "calculate_readability_scores" -> ~TEXTSTAT_AVAILABLE \/ textstat = None

C5_ClampedRawForEveryText ==
    (/\ AdapterDone
     /\ ret[1].fn = "calculate_density"
     /\ IDEADENSITY_AVAILABLE
     /\ ret[1].lib.kind = "return"
     /\ call.text # <<>>)
        => ret[1].outcome = Ret(Clamp(0, One, ret[1].lib.value))

----------------------------------------------------------------------------
(* _extract_domain, src/app/extractor.py:394-401, with the part of          *)
(* urllib.parse.urlparse it relies on: the scheme is split off at the first *)
(* ':' when everything before it is a scheme character, the netloc is what  *)
(* follows a leading '//' up to the next '/', '?' or '#', and a netloc with  *)
(* one square bracket but not the other raises ValueError.                   *)

Letters ==
    {"a", "b", "c", "d", "e", "f", "g", "h", "i", "j", "k", "l", "m", "n", "o",
     "p", "q", "r", "s", "t", "u", "v", "w", "x", "y", "z",
     "A", "B", "C", "D", "E", "F", "G", "H", "I", "J", "K", "L", "M", "N", "O",
     "P", "Q", "R", "S", "T", "U", "V", "W", "X", "Y", "Z"}

SchemeChars == Letters \cup {"0", "1", "2", "3", "4", "5", "6", "7", "8", "9", "+", "-", "."}

\* the least index from `from` on whose character is in chars, Len(s) + 1 if none
RECURSIVE IndexOfAny(_, _, _)
IndexOfAny(s, chars, from) ==
    IF from > Len(s) THEN Len(s) + 1
    ELSE IF s[from] \in chars THEN from
    ELSE IndexOfAny(s, chars, from + 1)

\* url with its scheme and the ':' removed, when it has a scheme
after_scheme(url) ==
    LET i == IndexOfAny(url, {":"}, 1)
    IN  IF /\ i > 1 /\ i <= Len(url)
           /\ url[1] \in Letters
           /\ \A k \in 1..(i - 1) : url[k] \in SchemeChars
        THEN SubSeq(url, i + 1, Len(url))
        ELSE url

\* urlparse(url).netloc, or the exception urlparse raises
urlparse_netloc(url) ==
    LET rest == after_scheme(url)
    IN  IF Len(rest) >= 2 /\ rest[1] = "/" /\ rest[2] = "/"
        THEN LET delim  == IndexOfAny(rest, {"/", "?", "#"}, 3)
                 netloc == SubSeq(rest, 3, delim - 1)
                 chars  == {netloc[k] : k \in 1..Len(netloc)}
             IN  IF ("[" \in chars) # ("]" \in chars)
                 THEN Raise("ValueError")
                 ELSE Ret(netloc)
        ELSE Ret(<<>>)

\* str.replace(old, ""): every occurrence of old removed, left to right
RECURSIVE remove_all(_, _)
remove_all(s, old) ==
    IF Len(s) < Len(old) THEN s
    ELSE IF SubSeq(s, 1, Len(old)) = old
    THEN remove_all(SubSeq(s, Len(old) + 1, Len(s)), old)
    ELSE <<Head(s)>> \o remove_all(Tail(s), old)

Unknown == <<"u", "n", "k", "n", "o", "w", "n">>

Www == <<"w", "w", "w", ".">>

\* lines 394-401
_extract_domain(url) ==
    LET parsed == urlparse_netloc(url)
    IN  IF parsed.kind = "raise" THEN Unknown
        ELSE remove_all(parsed.value, Www)

----------------------------------------------------------------------------
(* _calculate_signal_score, src/app/extractor.py:323-392.  The score is a  *)
(* sum and product of decimal constants of at most four fractional digits; *)
(* it is kept exactly, as an integer number of 1/SCALE.                    *)

SCALE == 100 * 100

\* lines 184-207: HIGH_TRUST_DOMAINS in declaration order, boosts in 1/SCALE
HIGH_TRUST_DOMAINS ==
    <<
       <<<<"a", "r", "x", "i", "v", ".", "o", "r", "g">>, 11500>>,
       <<<<"g", "i", "t", "h", "u", "b", ".", "c", "o", "m">>, 11000>>,
       <<<<"o", "p", "e", "n", "a", "i", ".", "c", "o", "m">>, 11200>>,
       <<<<"d", "e", "e", "p", "m", "i", "n", "d", ".", "c", "o", "m">>, 11200>>,
       <<<<"r", "e", "s", "e", "a", "r", "c", "h", ".", "g", "o", "o", "g", "l", "e">>, 11200>>,
       <<<<"a", "n", "t", "h", "r", "o", "p", "i", "c", ".", "c", "o", "m">>, 11000>>,
       <<<<"h", "u", "g", "g", "i", "n", "g", "f", "a", "c", "e", ".", "c", "o">>, 10800>>,
       <<<<"p", "y", "t", "o", "r", "c", "h", ".", "o", "r", "g">>, 10800>>,
       <<<<"t", "e", "n", "s", "o", "r", "f", "l", "o", "w", ".", "o", "r", "g">>, 10800>>,
       <<<<"n", "a", "t", "u", "r", "e", ".", "c", "o", "m">>, 11500>>,
       <<<<"s", "c", "i", "e", "n", "c", "e", ".", "o", "r", "g">>, 11500>>,
       <<<<"a", "c", "m", ".", "o", "r", "g">>, 11000>>,
       <<<<"i", "e", "e", "e", ".", "o", "r", "g">>, 11000>>,
       <<<<"d", "i", "s", "t", "i", "l", "l", ".", "p", "u", "b">>, 11500>>,
       <<<<"l", "i", "l", "i", "a", "n", "w", "e", "n", "g", ".", "g", "i", "t", "h", "u", "b", ".", "i", "o">>, 11200>>,
       <<<<"c", "o", "l", "a", "h", ".", "g", "i", "t", "h", "u", "b", ".", "i", "o">>, 11200>>,
       <<<<"k", "a", "r", "p", "a", "t", "h", "y", ".", "g", "i", "t", "h", "u", "b", ".", "i", "o">>, 11200>>,
       <<<<"m", "a", "r", "t", "i", "n", ".", "k", "l", "e", "p", "p", "m", "a", "n", "n", ".", "c", "o", "m">>, 11000>>,
       <<<<"j", "v", "n", "s", ".", "c", "a">>, 10800>>,
       <<<<"r", "a", "c", "h", "e", "l", "b", "y", "t", "h", "e", "b", "a", "y", ".", "c", "o", "m">>, 10800>>,
       <<<<"d", "a", "n", "l", "u", "u", ".", "c", "o", "m">>, 11000>>,
       <<<<"b", "r", "a", "n", "d", "u", "r", ".", "o", "r", "g">>, 10800>>
    >>

\* lines 210-220: SPAM_PATTERNS; each is its words joined by \s+
SPAM_PATTERNS ==
    <<
       <<"subscribe", "to", "our", "newsletter">>,
       <<"sign", "up", "for", "free">>,
       <<"limited", "time", "offer">>,
       <<"click", "here", "to", "buy">>,
       <<"affiliate", "link">>,
       <<"sponsored", "content">>,
       <<"you", "won't", "believe">>,
       <<"shocking">>,
       <<"this", "one", "trick">>
    >>

\* needle in hay
IsSubstring(needle, hay) ==
    \E i \in 1..(Len(hay) - Len(needle) + 1) :
        SubSeq(hay, i, i + Len(needle) - 1) = needle

\* a content is written as its parts, in this order and separated by single
\* spaces: prose distinct words, the word "the" echo times, code definitions
\* "def f", refs citation markers "[1]", the words of phrases (lower-case),
\* and bullets list items "\n- x"
\* line 336: len(content.split())
word_count(c) ==
    c.prose + c.echo + 2 * c.code + c.refs + 2 * c.bullets + Len(c.phrases)

\* line 380: len(set(words)) over the lower-cased words
unique_words(c) ==
    c.prose + (IF c.echo > 0 THEN 1 ELSE 0) + (IF c.code > 0 THEN 2 ELSE 0)
        + (IF c.refs > 0 THEN 1 ELSE 0) + (IF c.bullets > 0 THEN 2 ELSE 0)
        + Cardinality({c.phrases[i] : i \in 1..Len(c.phrases)})

\* line 358: the hits of the code regex
code_indicators(c) == c.code

\* line 364: the hits of the reference regex
ref_indicators(c) == c.refs

\* lines 370-373: the number of patterns found in the content
spam_count(c) ==
    Cardinality({i \in 1..Len(SPAM_PATTERNS) : IsSubstring(SPAM_PATTERNS[i], c.phrases)})

\* line 387: the hits of the structure regex
structural_patterns(c) == c.bullets

Min(a, b) == IF a < b THEN a ELSE b

\* the chain with its comparisons written <= instead of <
length_adjustment_inclusive(n) ==
    IF n <= 200 THEN -1500
    ELSE IF n <= 500 THEN -500
    ELSE IF n <= 1000 THEN 500
    ELSE IF n <= 3000 THEN 1000
    ELSE IF n <= 5000 THEN 1200
    ELSE 1500

\* lines 336-348
length_adjustment(n) ==
    IF n < 200 THEN -1500
    ELSE IF n < 500 THEN -500
    ELSE IF n < 1000 THEN 500
    ELSE IF n < 3000 THEN 1000
    ELSE IF n < 5000 THEN 1200
    ELSE 1500

\* the boost of the last table entry found in the domain
domain_boost_last(domain, i) ==
    LET found == {k \in i..Len(HIGH_TRUST_DOMAINS) :
                     IsSubstring(HIGH_TRUST_DOMAINS[k][1], domain)}
    IN  IF found = {} THEN SCALE
        ELSE HIGH_TRUST_DOMAINS[CHOOSE k \in found : \A j \in found : j <= k][2]

\* lines 352-355: the boost of the first table entry found in the domain,
\* 1.0 when there is none
RECURSIVE domain_boost(_, _)
domain_boost(domain, i) ==
    IF i > Len(HIGH_TRUST_DOMAINS) THEN SCALE
    ELSE IF IsSubstring(HIGH_TRUST_DOMAINS[i][1], domain) THEN HIGH_TRUST_DOMAINS[i][2]
    ELSE domain_boost(domain, i + 1)

\* lines 359-361
code_boost(n) == IF n > 0 THEN Min(1500, n * 200) ELSE 0

\* lines 365-367
ref_boost(n) == IF n > 0 THEN Min(1000, n * 150) ELSE 0

\* a penalty applied once, whatever the number of patterns found
spam_penalty_flat(n) == IF n > 0 THEN 1000 ELSE 0

\* lines 374-375
spam_penalty(n) == IF n > 0 THEN n * 1000 ELSE 0

\* lines 378-384
vocabulary_adjustment(unique, total) ==
    IF total = 0 THEN 0
    ELSE IF 2 * unique > total THEN 500
    ELSE IF 10 * unique < 3 * total THEN -500
    ELSE 0

\* lines 388-389
structure_bonus(n) == IF n > 3 THEN 500 ELSE 0

\* lines 333-389: the score before the final clamp
running_score(content, url, title) ==
    LET s1 == SCALE \div 2 + length_adjustment(word_count(content))
        s2 == (s1 * domain_boost(_extract_domain(url), 1)) \div SCALE
    IN  s2 + code_boost(code_indicators(content))
           + ref_boost(ref_indicators(content))
           - spam_penalty(spam_count(content))
           + vocabulary_adjustment(unique_words(content), word_count(content))
           + structure_bonus(structural_patterns(content))

\* the final clamp with its lower bound forgotten
signal_score_no_floor(content, url, title) ==
    Min(SCALE, running_score(content, url, title))

\* a scorer that also searches the title for the spam word it carries
signal_score_reads_title(content, url, title) ==
    Clamp(0, SCALE, running_score(content, url, title)
                      - (IF title = "Shocking" THEN SCALE \div 10 ELSE 0))

\* lines 323-392
_calculate_signal_score(content, url, title) ==
    Clamp(0, SCALE, running_score(content, url, title))

----------------------------------------------------------------------------
(* The scorer and the domain extraction as pure functions of their inputs. *)

Hosts ==
    {
     <<"w", "w", "w", ".", "e", "x", "a", "m", "p", "l", "e", ".", "c", "o", "m">>,
     <<"e", "x", "a", "m", "p", "l", "e", ".", "c", "o", "m">>,
     <<"b", "l", "o", "g", ".", "e", "x", "a", "m", "p", "l", "e", ".", "c", "o", "m">>,
     <<"a", "r", "x", "i", "v", ".", "o", "r", "g">>,
     <<"w", "w", "w", ".", "a", "r", "x", "i", "v", ".", "o", "r", "g">>,
     <<"g", "i", "t", "h", "u", "b", ".", "c", "o", "m">>,
     <<"k", "a", "r", "p", "a", "t", "h", "y", ".", "g", "i", "t", "h", "u", "b", ".", "i", "o">>,
     <<"s", "p", "a", "m", "-", "s", "i", "t", "e", ".", "c", "o", "m">>,
     <<"W", "W", "W", ".", "E", "x", "a", "m", "p", "l", "e", ".", "C", "O", "M">>,
     <<"m", "y", ".", "w", "w", "w", ".", "e", "x", "a", "m", "p", "l", "e", ".", "c", "o", "m">>
    }

Schemes == {<<>>, <<"h", "t", "t", "p", "s", ":", "/", "/">>, <<"/", "/">>}

Paths == {<<>>, <<"/", "x">>}

\* 'not-a-url' of test_extract_domain_invalid_url
NotAUrl == <<"n", "o", "t", "-", "a", "-", "u", "r", "l">>

\* a netloc with an opening bracket only
BadBracketUrl == <<"h", "t", "t", "p", ":", "/", "/", "[", ":", ":", "1">>

Urls == {s \o h \o p : s \in Schemes, h \in Hosts, p \in Paths} \cup {NotAUrl, BadBracketUrl}

\* a host in which two table entries are found: github.com (1.1), declared
\* second, and nature.com (1.15), declared tenth
TwoTrustedHost == <<"g", "i", "t", "h", "u", "b", ".", "c", "o", "m", ".", "n", "a", "t", "u", "r", "e", ".", "c", "o", "m">>

ScoredHosts == {<<"a", "r", "x", "i", "v", ".", "o", "r", "g">>, <<"g", "i", "t", "h", "u", "b", ".", "c", "o", "m">>, <<"e", "x", "a", "m", "p", "l", "e", ".", "c", "o", "m">>, <<"k", "a", "r", "p", "a", "t", "h", "y", ".", "g", "i", "t", "h", "u", "b", ".", "i", "o">>, TwoTrustedHost}

ScoredUrls == {<<"h", "t", "t", "p", "s", ":", "/", "/">> \o h \o <<"/", "x">> : h \in ScoredHosts} \cup {NotAUrl, <<>>}

NoPhrases == <<>>

OnePhrase == <<"shocking">>

ThreePhrases ==
    <<"subscribe", "to", "our", "newsletter", "sign", "up", "for", "free",
      "click", "here", "to", "buy">>

RECURSIVE JoinPhrases(_, _)
JoinPhrases(ps, i) ==
    IF i > Len(ps) THEN <<>>
    ELSE ps[i] \o JoinPhrases(ps, i + 1)

\* every spam pattern, once
AllPhrases == JoinPhrases(SPAM_PATTERNS, 1)

ProseLengths == {0, 1, 150, 199, 200, 499, 500, 999, 1000, 2999, 3000, 4999, 5000}

Contents ==
    [prose : ProseLengths, echo : {0, 400}, code : {0, 3, 20}, refs : {0, 20},
     phrases : {NoPhrases, ThreePhrases, AllPhrases}, bullets : {0, 4}]

\* the content of test_calculate_signal_score_spam_detection: 'Subscribe to
\* our newsletter! Sign up for free updates! Click here to buy!'
SpamTestContent ==
    [prose |-> 0, echo |-> 0, code |-> 0, refs |-> 0, bullets |-> 0,
     phrases |-> <<"subscribe", "to", "our", "newsletter", "sign", "up", "for", "free",
                   "updates", "click", "here", "to", "buy">>]

\* the content of test_calculate_signal_score_high_quality_content: 39 words,
\* 35 of them distinct, no marker and no pattern
QualityTestContent ==
    [prose |-> 34, echo |-> 5, code |-> 0, refs |-> 0, bullets |-> 0, phrases |-> NoPhrases]

\* the content of test_calculate_signal_score_technical_content: 47 words, 41
\* of them distinct, three hits of the code regex ('def ', 'import ', 'function ')
TechnicalTestContent ==
    [prose |-> 38, echo |-> 3, code |-> 3, refs |-> 0, bullets |-> 0, phrases |-> NoPhrases]

TestContents == {SpamTestContent, QualityTestContent, TechnicalTestContent}

EmptyContent ==
    [prose |-> 0, echo |-> 0, code |-> 0, refs |-> 0, phrases |-> NoPhrases, bullets |-> 0]

Titles == {"", "Research Paper", "Shocking"}

InitScorer ==
    /\ env = [n \in {} |-> ""]
    /\ AnalyticsIdle
    /\ ModuleLoaded
    /\ call \in [op : {"score"}, content : Contents \cup TestContents, url : ScoredUrls,
                 title : Titles]
                \cup [op : {"score"}, content : {EmptyContent}, url : Urls, title : {""}]
    /\ ret = None
    /\ log = <<>>
    /\ prev = None
    /\ pc = "call"

CalculateSignalScore ==
    /\ pc = "call" /\ call.op = "score"
    /\ ret' = Some([fn |-> "_calculate_signal_score",
                    outcome |-> Ret(_calculate_signal_score(call.content, call.url,
                                                            call.title))])
    /\ pc' = "done"
    /\ UNCHANGED <<dbvars, env, modvars, call, log, prev>>

ExtractDomain ==
    /\ pc = "call" /\ call.op = "score"
    /\ ret' = Some([fn |-> "_extract_domain", outcome |-> Ret(_extract_domain(call.url))])
    /\ pc' = "done"
    /\ UNCHANGED <<dbvars, env, modvars, call, log, prev>>

NextScorer == CalculateSignalScore \/ ExtractDomain

SpecScorer == InitScorer /\ [][NextScorer]_vars

ScoreDone == pc = "done" /\ call.op = "score" /\ ret[1].fn = "_calculate_signal_score"

DomainDone == pc = "done" /\ call.op = "score" /\ ret[1].fn = "_extract_domain"

\* C9: _calculate_signal_score returns a value within [0,1] for every
\* content, url and title: empty strings, content matching all nine spam
\* patterns, content with many code and reference indicators on a trusted
\* domain.
C9_SignalScoreInUnitInterval ==
    ScoreDone => (ret[1].outcome.value >= 0 /\ ret[1].outcome.value <= SCALE)

\* C9 witness: all nine spam patterns match, the running score is negative
\* and the result is 0
C9_Witness ==
    /\ ScoreDone
    /\ spam_count(call.content) = 9
    /\ running_score(call.content, call.url, call.title) < 0
    /\ ret[1].outcome.value = 0

\* C10: _extract_domain maps 'https://www.example.com/x' to 'example.com'
\* and maps a string that is not a URL, such as 'not-a-url', to 'unknown'.
C10_DomainOfUrlAndOfNonUrl ==
    DomainDone =>
        /\ call.url = <<"h", "t", "t", "p", "s", ":", "/", "/">> \o <<"w", "w", "w", ".", "e", "x", "a", "m", "p", "l", "e", ".", "c", "o", "m">> \o <<"/", "x">> => ret[1].outcome.value = <<"e", "x", "a", "m", "p", "l", "e", ".", "c", "o", "m">>
        /\ call.url = NotAUrl => ret[1].outcome.value = Unknown

----------------------------------------------------------------------------
(* The characters of a content: what len() and str.strip() see. *)

LowerLetters ==
    <<"a", "b", "c", "d", "e", "f", "g", "h", "i", "j", "k", "l", "m", "n", "o",
      "p", "q", "r", "s", "t", "u", "v", "w", "x", "y", "z">>

\* the i-th prose word: three letters and a final "w" (no keyword of the code
\* regex ends in "w"), distinct for distinct i below 26^3
ProseWord(i) ==
    <<LowerLetters[((i \div 676) % 26) + 1], LowerLetters[((i \div 26) % 26) + 1],
      LowerLetters[(i % 26) + 1], "w">>

\* the characters of a word of the spam patterns
WordChars(w) ==
        CASE w = "affiliate" -> <<"a", "f", "f", "i", "l", "i", "a", "t", "e">>
          [] w = "believe" -> <<"b", "e", "l", "i", "e", "v", "e">>
          [] w = "buy" -> <<"b", "u", "y">>
          [] w = "click" -> <<"c", "l", "i", "c", "k">>
          [] w = "content" -> <<"c", "o", "n", "t", "e", "n", "t">>
          [] w = "for" -> <<"f", "o", "r">>
          [] w = "free" -> <<"f", "r", "e", "e">>
          [] w = "here" -> <<"h", "e", "r", "e">>
          [] w = "limited" -> <<"l", "i", "m", "i", "t", "e", "d">>
          [] w = "link" -> <<"l", "i", "n", "k">>
          [] w = "newsletter" -> <<"n", "e", "w", "s", "l", "e", "t", "t", "e", "r">>
          [] w = "offer" -> <<"o", "f", "f", "e", "r">>
          [] w = "one" -> <<"o", "n", "e">>
          [] w = "our" -> <<"o", "u", "r">>
          [] w = "shocking" -> <<"s", "h", "o", "c", "k", "i", "n", "g">>
          [] w = "sign" -> <<"s", "i", "g", "n">>
          [] w = "sponsored" -> <<"s", "p", "o", "n", "s", "o", "r", "e", "d">>
          [] w = "subscribe" -> <<"s", "u", "b", "s", "c", "r", "i", "b", "e">>
          [] w = "this" -> <<"t", "h", "i", "s">>
          [] w = "time" -> <<"t", "i", "m", "e">>
          [] w = "to" -> <<"t", "o">>
          [] w = "trick" -> <<"t", "r", "i", "c", "k">>
          [] w = "up" -> <<"u", "p">>
          [] w = "updates" -> <<"u", "p", "d", "a", "t", "e", "s">>
          [] w = "won't" -> <<"w", "o", "n", "'", "t">>
          [] w = "you" -> <<"y", "o", "u">>

\* the words of a content before its list items, in order ("def f" is two)
ContentTokens(c) ==
    [i \in 1..c.prose |-> ProseWord(i)]
        \o [i \in 1..c.echo |-> <<"t", "h", "e">>]
        \o [i \in 1..c.code |-> <<"d", "e", "f", " ", "f">>]
        \o [i \in 1..c.refs |-> <<"[", "1", "]">>]
        \o [i \in 1..Len(c.phrases) |-> WordChars(c.phrases[i])]

RECURSIVE JoinWords(_, _)
JoinWords(ts, i) ==
    IF i > Len(ts) THEN <<>>
    ELSE ts[i] \o (IF i < Len(ts) THEN <<" ">> ELSE <<>>) \o JoinWords(ts, i + 1)

\* the text of a content
Chars(c) == JoinWords(ContentTokens(c), 1) \o
            [i \in 1..(4 * c.bullets) |-> <<"\n", "-", " ", "x">>[((i - 1) % 4) + 1]]

----------------------------------------------------------------------------
(* extract_from_url, src/app/extractor.py:222-299, stage by stage.  A page *)
(* is what the code looks at: whether the body is the empty string and the *)
(* text of its <title> element.  call carries the locals of the run, log   *)
(* the collaborators invoked, ret the report or the exception that leaves. *)

Pages ==
    [empty : {TRUE}, title_tag : {None}]
        \cup [empty : {FALSE}, title_tag : {None, Some("Page Title")}]

\* what the HTTP client does: fails to connect, or answers with a status
Transports ==
    {[kind |-> "error", status |-> 0, body |-> [empty |-> TRUE, title_tag |-> None]]}
        \cup [kind : {"response"}, status : {200, 404}, body : Pages]

\* lines 301-321: the body of a response without error status, None otherwise
_fetch_page(transport) ==
    IF transport.kind = "response" /\ transport.status < 400
    THEN Ret(Some(transport.body))
    ELSE Ret(None)

\* what the fetch stage does: _fetch_page over a transport, or the test double
\* of test_extract_from_url_exception_handling, which raises
FetchOutcomes ==
    {_fetch_page(t) : t \in Transports} \cup {Raise("Network error")}

ShortContent ==
    [prose |-> 3, echo |-> 0, code |-> 0, refs |-> 0, phrases |-> NoPhrases, bullets |-> 0]

LongContent ==
    [prose |-> 12, echo |-> 0, code |-> 1, refs |-> 0, phrases |-> OnePhrase, bullets |-> 0]

\* trafilatura.extract: raises, finds nothing, or returns a text (maybe empty)
ExtractOutcomes ==
    {Raise("extract failed"), Ret(None)}
        \cup {Ret(Some(c)) : c \in {EmptyContent, ShortContent, LongContent}}

\* trafilatura.extract_metadata: raises, returns None, or a document whose
\* title is None, empty or a text
MetadataOutcomes ==
    {Raise("metadata failed"), Ret(None)}
        \cup {Ret(Some([title |-> t])) : t \in {None, Some(""), Some("Meta Title")}}

\* lines 403-408: the text of the <title> element, None without one
_extract_title_fallback(html) == html.title_tag

\* x or default, for an optional string
OrElse(x, default) == IF x = None \/ x[1] = "" THEN default ELSE x[1]

\* round(x, 2) of a score in 1/SCALE, in hundredths; at a tie the float
\* nearest to the score decides, which the decimal value does not tell
Round2(x) ==
    LET q == x \div 100
        r == x % 100
    IN  IF r < 50 THEN {q} ELSE IF r > 50 THEN {q + 1} ELSE {q, q + 1}

\* round(x, 3) of a float, in thousandths: nearest, ties to even
Round3(x) ==
    LET q == (x * 1000) \div One
        r == (x * 1000) % One
    IN  IF 2 * r < One THEN q
        ELSE IF 2 * r > One THEN q + 1
        ELSE IF q % 2 = 0 THEN q ELSE q + 1

\* a failure report that carries the neutral density default
_error_response_neutral(url, error) ==
    [url |-> url,
     title |-> "Extraction Failed",
     content |-> "Error: " \o error,
     source |-> _extract_domain(url),
     length |-> 0,
     signal_score |-> 0,
     density_score |-> 500,
     error |-> error]

\* lines 410-421
_error_response(url, error) ==
    [url |-> url,
     title |-> "Extraction Failed",
     content |-> "Error: " \o error,
     source |-> _extract_domain(url),
     length |-> 0,
     signal_score |-> 0,
     density_score |-> 0,
     error |-> error]

\* the handler without its except clause
on_exception_propagate(url, e) == Raise(e)

\* lines 297-299: except Exception as e: return self._error_response(url, str(e))
on_exception(url, e) == Ret(_error_response(url, e))

\* a report whose density_score is taken from the DEPID score when there is one
success_report_depid(url, title, extracted, signal, cpidr_score, depid_score, readability_scores) ==
    [url |-> url,
     title |-> OrElse(title, "Untitled"),
     content |-> extracted,
     source |-> _extract_domain(url),
     length |-> Len(Chars(extracted)),
     signal_score |-> signal,
     density_score |-> IF depid_score # None THEN Round3(depid_score[1]) ELSE Round3(cpidr_score),
     depid_density |-> IF depid_score # None THEN Some(Round3(depid_score[1])) ELSE None,
     readability_score |-> readability_scores]

\* lines 282-292: the report of a successful run
success_report(url, title, extracted, signal, cpidr_score, depid_score, readability_scores) ==
    [url |-> url,
     title |-> OrElse(title, "Untitled"),
     content |-> extracted,
     source |-> _extract_domain(url),
     length |-> Len(Chars(extracted)),
     signal_score |-> signal,
     density_score |-> Round3(cpidr_score),
     depid_density |-> IF depid_score # None THEN Some(Round3(depid_score[1])) ELSE None,
     readability_score |-> readability_scores]

ExtractUrls == {<<"h", "t", "t", "p", "s", ":", "/", "/">> \o <<"w", "w", "w", ".", "e", "x", "a", "m", "p", "l", "e", ".", "c", "o", "m">> \o <<"/", "x">>, NotAUrl, BadBracketUrl}

ExtractEnvs ==
    {[n \in {} |-> ""]} \cup {[n \in {name} |-> v] : name \in EnvNames, v \in {"1.0", "abc"}}

InitExtract ==
    /\ env \in ExtractEnvs
    /\ AnalyticsIdle
    /\ IDEADENSITY_AVAILABLE \in BOOLEAN
    /\ TEXTSTAT_AVAILABLE \in BOOLEAN
    /\ depid = (IF IDEADENSITY_AVAILABLE THEN Some("ideadensity.depid") ELSE None)
    /\ textstat = (IF TEXTSTAT_AVAILABLE THEN Some(TextstatImported) ELSE None)
    /\ call \in [op : {"extract_from_url"}, url : ExtractUrls, html : {None},
                 extracted : {None}, title : {None}, scores : {None}, fault : {None}]
    /\ ret = None
    /\ log = <<>>
    /\ prev = None
    /\ pc = "start"

\* a stage ends the run: with a degraded report, or through the except clause
Finish(outcome, stage, what) ==
    /\ ret' = Some(outcome)
    /\ call' = [call EXCEPT !.fault = Some([stage |-> stage, what |-> what])]
    /\ pc' = "done"

\* a fetch stage that tries once more when the first fetch yields nothing
FetchWithRetry ==
    /\ pc = "start" /\ call.op = "extract_from_url"
    /\ log' = Append(log, "_fetch_page")
    /\ \E f \in FetchOutcomes :
         IF f.kind = "raise" THEN Finish(on_exception(call.url, f.exc), "fetch", "raised")
         ELSE IF (f.value = None \/ f.value[1].empty) /\ log = <<>>
         THEN UNCHANGED <<call, pc, ret>>
         ELSE IF f.value = None \/ f.value[1].empty
         THEN Finish(Ret(_error_response(call.url, "Failed to fetch page")), "fetch", "nothing")
         ELSE /\ call' = [call EXCEPT !.html = f.value]
              /\ pc' = "fetched"
              /\ ret' = ret
    /\ UNCHANGED <<dbvars, env, modvars, prev>>

\* lines 237-239
Fetch ==
    /\ pc = "start" /\ call.op = "extract_from_url"
    /\ log' = Append(log, "_fetch_page")
    /\ \E f \in FetchOutcomes :
         IF f.kind = "raise" THEN Finish(on_exception(call.url, f.exc), "fetch", "raised")
         ELSE IF f.value = None \/ f.value[1].empty
         THEN Finish(Ret(_error_response(call.url, "Failed to fetch page")), "fetch", "nothing")
         ELSE /\ call' = [call EXCEPT !.html = f.value]
              /\ pc' = "fetched"
              /\ ret' = ret
    /\ UNCHANGED <<dbvars, env, modvars, prev>>

\* lines 242-252
Extract ==
    /\ pc = "fetched" /\ call.op = "extract_from_url"
    /\ log' = Append(log, "trafilatura.extract")
    /\ \E x \in ExtractOutcomes :
         IF x.kind = "raise" THEN Finish(on_exception(call.url, x.exc), "extract", "raised")
         ELSE IF x.value = None \/ Chars(x.value[1]) = <<>>
         THEN Finish(Ret(_error_response(call.url, "No content extracted")),
                     "extract", "nothing")
         ELSE /\ call' = [call EXCEPT !.extracted = x.value]
              /\ pc' = "extracted"
              /\ ret' = ret
    /\ UNCHANGED <<dbvars, env, modvars, prev>>

\* lines 255-256
Metadata ==
    /\ pc = "extracted" /\ call.op = "extract_from_url"
    /\ log' = Append(log, "trafilatura.extract_metadata")
    /\ \E m \in MetadataOutcomes :
         IF m.kind = "raise" THEN Finish(on_exception(call.url, m.exc), "metadata", "raised")
         ELSE /\ call' = [call EXCEPT !.title =
                            IF m.value # None THEN m.value[1].title
                            ELSE _extract_title_fallback(call.html[1])]
              /\ pc' = "titled"
              /\ ret' = ret
    /\ UNCHANGED <<dbvars, env, modvars, prev>>

\* lines 259-295
\* the scoring block ends the run through the except clause, the scores
\* already measured kept for inspection
FinishScoring(outcome, measured) ==
    /\ ret' = Some(outcome)
    /\ call' = [call EXCEPT !.fault = Some([stage |-> "scoring", what |-> "raised"]),
                            !.scores = Some(measured)]
    /\ pc' = "done"

Score ==
    /\ pc = "titled" /\ call.op = "extract_from_url"
    /\ \E cpidr_does \in {Raises, Ret(Fl(4, 5)), Ret(Fl(3, 2))},
          depid_does \in {Raises, Ret(Fl(3, 10))},
          textstat_does \in {Raises, Ret(FullReadability(Fl(45, 1)))} :
         LET extracted == call.extracted[1]
             signal    == _calculate_signal_score(extracted, call.url, OrElse(call.title, ""))
             d         == calculate_density(Chars(extracted), cpidr_does)
             p         == calculate_depid_density(Chars(extracted), depid_does)
             r         == calculate_readability_scores(Chars(extracted), textstat_does)
             threshold == float(getenv("DENSITY_THRESHOLD", "0.45"))
             combined  == calculate_combined_density(d.out.value, p.out.value, r.out.value)
             measured  == [signal_score |-> signal,
                           cpidr_score |-> d.out.value,
                           depid_score |-> p.out.value,
                           readability_scores |-> r.out.value,
                           combined_density |-> None]
         IN  /\ log' = log \o <<"_calculate_signal_score">> \o d.calls \o p.calls \o r.calls
             /\ textstat' = textstat_after(r.calls, Chars(extracted))
             /\ IF threshold.kind = "raise"
                THEN FinishScoring(on_exception(call.url, threshold.exc), measured)
                ELSE IF combined.kind = "raise"
                THEN FinishScoring(on_exception(call.url, combined.exc), measured)
                ELSE \E s2 \in Round2(signal) :
                       /\ ret' = Some(Ret(success_report(call.url, call.title, extracted, s2,
                                            d.out.value, p.out.value, r.out.value)))
                       /\ call' = [call EXCEPT !.scores =
                                      Some([signal_score |-> signal,
                                            cpidr_score |-> d.out.value,
                                            depid_score |-> p.out.value,
                                            readability_scores |-> r.out.value,
                                            combined_density |-> combined.value])]
                       /\ pc' = "done"
    /\ UNCHANGED <<dbvars, env, IDEADENSITY_AVAILABLE, TEXTSTAT_AVAILABLE, depid, prev>>

NextExtract == Fetch \/ Extract \/ Metadata \/ Score

SpecExtract == InitExtract /\ [][NextExtract]_vars

ExtractDone == pc = "done" /\ call.op = "extract_from_url"

SuccessFields ==
    {"url", "title", "content", "source", "length", "signal_score", "density_score",
     "depid_density", "readability_score"}

\* C1: extract_from_url never raises to its caller: when the fetch yields
\* nothing, when extraction yields nothing or an empty string, or when any
\* stage (fetch, extract, metadata, scoring) raises, the call returns a
\* degraded report carrying an 'error' string.
C1_NeverRaises ==
    ExtractDone =>
        /\ ret[1].kind = "return"
        /\ call.fault # None =>
              /\ "error" \in DOMAIN ret[1].value
              /\ ret[1].value.error \in STRING

\* C1 witness: the scoring stage raised (a weight that is no number) and the
\* caller got a report with the error
C1_Witness ==
    /\ ExtractDone
    /\ call.fault = Some([stage |-> "scoring", what |-> "raised"])
    /\ ret[1].kind = "return"
    /\ ret[1].value.error = "ValueError"

\* C2: a failure report has the same set of fields as a success report plus
\* an 'error' field, with content 'Error: <message>', length 0 and every
\* numeric score equal to 0.0.
C2_FailureHasSuccessShape ==
    (ExtractDone /\ call.fault # None /\ ret[1].kind = "return") =>
        /\ DOMAIN ret[1].value = SuccessFields \cup {"error"}
        /\ ret[1].value.content = "Error: " \o ret[1].value.error
        /\ ret[1].value.length = 0
        /\ ret[1].value.signal_score = 0
        /\ ret[1].value.density_score = 0

FailureFields ==
    {"url", "title", "content", "source", "length", "signal_score", "density_score", "error"}

\* C2 (amended): a failure report has the fields url, title, content, source,
\* length, signal_score, density_score and error, that is the fields of a
\* success report without depid_density and readability_score, plus error;
\* its content is 'Error: <message>', its length 0 and both of its numeric
\* scores 0.0.
C2_FailureReportFields ==
    (ExtractDone /\ call.fault # None /\ ret[1].kind = "return") =>
        /\ DOMAIN ret[1].value = FailureFields
        /\ FailureFields = (SuccessFields \ {"depid_density", "readability_score"}) \cup {"error"}
        /\ ret[1].value.content = "Error: " \o ret[1].value.error
        /\ ret[1].value.length = 0
        /\ ret[1].value.signal_score = 0
        /\ ret[1].value.density_score = 0

\* C2 witness: extraction found nothing and the failure report came back,
\* while a success report of another run would carry the two extra fields
C2_Witness ==
    /\ ExtractDone
    /\ call.fault = Some([stage |-> "extract", what |-> "nothing"])
    /\ ret[1].kind = "return"
    /\ ret[1].value.error = "No content extracted"
    /\ "depid_density" \notin DOMAIN ret[1].value

----------------------------------------------------------------------------
(* The domain reported as 'source'.                                        *)

UpperLetters ==
    <<"A", "B", "C", "D", "E", "F", "G", "H", "I", "J", "K", "L", "M",
      "N", "O", "P", "Q", "R", "S", "T", "U", "V", "W", "X", "Y", "Z">>

\* a string with its upper-case letters replaced by the lower-case ones
LowerCased(s) ==
    [k \in 1..Len(s) |->
        IF \E i \in 1..26 : UpperLetters[i] = s[k]
        THEN LowerLetters[CHOOSE i \in 1..26 : UpperLetters[i] = s[k]]
        ELSE s[k]]

\* a string without the prefix, when it starts with it
WithoutPrefix(s, prefix) ==
    IF Len(s) >= Len(prefix) /\ SubSeq(s, 1, Len(prefix)) = prefix
    THEN SubSeq(s, Len(prefix) + 1, Len(s))
    ELSE s

HasNetloc(url) ==
    urlparse_netloc(url).kind = "return" /\ urlparse_netloc(url).value # <<>>

\* C11: for every URL with a network location the domain is the netloc
\* lower-cased with only a leading 'www.' removed: no upper-case letter
\* survives, and a 'www.' that is not at the start stays in place.
C11_LowerCasedLeadingWwwOnly ==
    (DomainDone /\ HasNetloc(call.url)) =>
        ret[1].outcome.value
            = WithoutPrefix(LowerCased(urlparse_netloc(call.url).value), Www)

----------------------------------------------------------------------------
(* The report of a successful extraction.                                  *)

ExtractSucceeded == ExtractDone /\ call.fault = None /\ call.scores # None

\* the nearest multiple of 1/100 to a score in 1/SCALE, both at a tie
NearestHundredths(x) ==
    {q \in 0..100 : 2 * (IF q * 100 > x THEN q * 100 - x ELSE x - q * 100) <= 100}

\* the nearest multiple of 1/1000 to a float, the even one at a tie
NearestThousandth(x) ==
    CHOOSE q \in 0..2000 :
        LET e == IF q * One > x * 1000 THEN q * One - x * 1000 ELSE x * 1000 - q * One
        IN  \/ 2 * e < One
            \/ 2 * e = One /\ q % 2 = 0

----------------------------------------------------------------------------
(* The scorer on the contents of the repository's tests.                   *)

\* no entry of the trusted-domain table is found in the url's domain
NonTrusted(url) == domain_boost(_extract_domain(url), 1) = SCALE

ScoredSpamTest ==
    ScoreDone /\ call.content = SpamTestContent /\ NonTrusted(call.url)

\* C13 as claimed: for 'Subscribe to our newsletter! Sign up for free updates!
\* Click here to buy!' at a non-trusted domain the scorer counts exactly two
\* spam-pattern hits (a penalty of -0.20) on top of the short-length penalty
\* and returns a score below 0.5.
C13_TwoSpamHits ==
    ScoredSpamTest =>
        /\ spam_count(call.content) = 2
        /\ ret[1].outcome.value
              = SCALE \div 2 + length_adjustment(13) - 2000
                  + vocabulary_adjustment(12, 13)
        /\ ret[1].outcome.value < SCALE \div 2

\* C13 amended: for that content at a non-trusted domain the scorer counts
\* exactly three spam-pattern hits (subscribe to our newsletter, sign up for
\* free, click here to buy: a penalty of -0.30) on top of the short-length
\* penalty, and returns 0.10, a signal score below 0.5.
C13_ThreeSpamHits ==
    ScoredSpamTest =>
        /\ spam_count(call.content) = 3
        /\ ret[1].outcome.value = SCALE \div 2 - 1500 - 3000 + 500
        /\ ret[1].outcome.value < SCALE \div 2

\* C13 witness: the test's content scored at example.com, at 0.10
C13_Witness ==
    /\ ScoredSpamTest
    /\ _extract_domain(call.url) = <<"e", "x", "a", "m", "p", "l", "e", ".", "c", "o", "m">>
    /\ ret[1].outcome.value = 1000

ArxivOrg == <<"a", "r", "x", "i", "v", ".", "o", "r", "g">>

GithubCom == <<"g", "i", "t", "h", "u", "b", ".", "c", "o", "m">>

\* fewer than 200 words, none of them a spam phrase or a citation marker
ShortClean(c) ==
    /\ word_count(c) > 0 /\ word_count(c) < 200
    /\ spam_count(c) = 0
    /\ ref_indicators(c) = 0

\* C14: spam-free prose of fewer than 200 words without code or citation
\* markers, hosted at arxiv.org, scores more than 0.5, and at least 0.6 for
\* the two-sentence machine-learning prose of the high-quality test.
C14_ArxivLiftsShortProse ==
    (/\ ScoreDone
     /\ _extract_domain(call.url) = ArxivOrg
     /\ ShortClean(call.content)
     /\ code_indicators(call.content) = 0)
        => /\ ret[1].outcome.value > SCALE \div 2
           /\ call.content = QualityTestContent => ret[1].outcome.value >= 6000

\* C15: spam-free content of fewer than 200 words with code indicators (the
\* snippet with 'def ' and 'import ' and prose mentioning 'function '), hosted
\* at github.com, scores strictly more than 0.5.
C15_GithubTechnicalAboveHalf ==
    (/\ ScoreDone
     /\ _extract_domain(call.url) = GithubCom
     /\ ShortClean(call.content)
     /\ code_indicators(call.content) = 3)
        => ret[1].outcome.value > SCALE \div 2

----------------------------------------------------------------------------
(* HeuristicAnalyzer.calculate_structure_score (app/services/analyzer.py,  *)
(* whose source is not in the repository snapshot: modelled from section   *)
(* 4.4 of the specification and from src/app/tests/test_analyzer.py).  A   *)
(* page is its length, whether the parser accepts it, and the findings the *)
(* five checks would make in it.  The minimum length, the base score and   *)
(* the sizes of the adjustments are not in the sources: they are inputs.   *)

EmptyOrTooShort == "Empty or too short content"

FailedToParse == "Failed to parse HTML"

\* test_calculate_structure_score_short_html has a page of 31 characters
\* reported as too short: the minimum length is above 31
MinLengths == {32, 100}

Findings == {"bloated", "affiliate", "hype", "code", "table"}

\* the order the checks run in
CheckOrder == <<"bloated", "affiliate", "hype", "code", "table">>

\* slop, affiliate links and hype count against a page, code and tables for it
Sign(check) == IF check \in {"code", "table"} THEN 1 ELSE -1

\* one adjustment per check, in order: (0, "") when the check finds nothing
adjustments(html, size) ==
    [i \in 1..Len(CheckOrder) |->
        IF CheckOrder[i] \in html.findings
        THEN <<Sign(CheckOrder[i]) * size, CheckOrder[i]>>
        ELSE <<0, "">>]

RECURSIVE SumDeltas(_, _)
SumDeltas(adj, i) == IF i > Len(adj) THEN 0 ELSE adj[i][1] + SumDeltas(adj, i + 1)

\* a length guard that catches the empty page only
too_short_html_empty_only(html, min_length) == html.length = 0

\* the guard: HTML length below the minimum
too_short_html(html, min_length) == html.length < min_length

\* the guard, the parse guard, then the checks and clamp(base + sum, 0, 100)
calculate_structure_score(html, min_length, base, size) ==
    IF too_short_html(html, min_length)
    THEN [out |-> [score |-> 0, reason |-> EmptyOrTooShort, adjustments |-> <<>>],
          calls |-> <<>>]
    ELSE IF ~html.parses
    THEN [out |-> [score |-> 30, reason |-> FailedToParse, adjustments |-> <<>>],
          calls |-> <<"parse">>]
    ELSE LET adj == adjustments(html, size)
         IN  [out |-> [score |-> Clamp(0, 100, base + SumDeltas(adj, 1)),
                       reason |-> "Analyzed",
                       adjustments |-> adj],
              calls |-> <<"parse">> \o CheckOrder]

\* '' , '<html><body>Short</body></html>' (31 characters),
\* '<html><unclosed><tags>content' (29 characters) and the 93-character
\* sample_html of the tests, then pages at and around each minimum length
MalformedTestLength == 29

HtmlLengths == {0, MalformedTestLength, 31, 32, 93, 99, 100, 600}

HtmlPages ==
    [length : HtmlLengths, parses : BOOLEAN,
     findings : {{}, {"bloated"}, {"code", "table"}, Findings}]

InitAnalyzer ==
    /\ env = [n \in {} |-> ""]
    /\ AnalyticsIdle
    /\ ModuleLoaded
    /\ call \in [op : {"calculate_structure_score"}, html : HtmlPages,
                 min_length : MinLengths]
    /\ ret = None
    /\ log = <<>>
    /\ prev = None
    /\ pc = "call"

CalculateStructureScore ==
    /\ pc = "call" /\ call.op = "calculate_structure_score"
    /\ \E base \in {50, 100}, size \in {10, 60} :
         LET r == calculate_structure_score(call.html, call.min_length, base, size)
         IN  /\ ret' = Some(Ret(r.out))
             /\ log' = r.calls
    /\ pc' = "done"
    /\ UNCHANGED <<dbvars, env, modvars, call, prev>>

NextAnalyzer == CalculateStructureScore

SpecAnalyzer == InitAnalyzer /\ [][NextAnalyzer]_vars

AnalyzerDone == pc = "done" /\ call.op = "calculate_structure_score"

C17_UnparsableScoresThirty ==
    (AnalyzerDone /\ ~call.html.parses /\ call.html.length > 0) =>
        /\ ret[1].value.score = 30
        /\ ret[1].value.reason = FailedToParse

----------------------------------------------------------------------------
(* Scoring calls running at the same time (src/app/extractor.py:100-177).  *)
(* What the calls share is the module global textstat, whose language      *)
(* every readability call sets before it measures (line 118), and the      *)
(* environment, which the combiner reads (lines 150-152).  Here call, pc   *)
(* and ret are per task; a step of a task is the code between two points   *)
(* where another thread can run: set_lang, the measurements, the rest.     *)

\* the number of calls running at the same time
MaxTasks == 2

Tasks == 1..MaxTasks

\* a text of 50 characters or more: its Flesch reading ease as textstat
\* computes it under the English rules and under the German ones
ScoredTexts ==
    {[id |-> "a", lang |-> "en", ease |-> [en |-> Fl(45, 1), de |-> Fl(60, 1)]],
     [id |-> "b", lang |-> "de", ease |-> [en |-> Fl(30, 1), de |-> Fl(75, 1)]]}

\* lines 119-125: the five scores, computed under the module's language
textstat_measure(text, lang) ==
    FullReadability(IF lang = "de" THEN text.ease.de ELSE text.ease.en)

\* lines 266-278 and 288-292: what a scoring call hands back
scoring_result(cpidr_score, depid_score, readability_scores) ==
    LET combined == calculate_combined_density(cpidr_score, depid_score, readability_scores)
    IN  IF combined.kind = "raise" THEN combined
        ELSE Ret([density_score |-> Round3(cpidr_score),
                  depid_density |-> IF depid_score # None THEN Some(Round3(depid_score[1]))
                                    ELSE None,
                  readability_score |-> readability_scores,
                  combined_density |-> combined.value])

ConcurrentEnvs ==
    {[n \in {} |-> ""]} \cup {[n \in {"DEPID_WEIGHT"} |-> v] : v \in {"1.0", "abc"}}

InitConcurrent ==
    /\ env \in ConcurrentEnvs
    /\ AnalyticsIdle
    /\ ModuleLoaded
    /\ call \in [Tasks -> [text : ScoredTexts, cpidr_score : {Fl(4, 5)},
                           depid_score : {None, Some(Fl(3, 10))},
                           readability_scores : {None}]]
    /\ ret = [t \in Tasks |-> None]
    /\ log = <<>>
    /\ prev = None
    /\ pc = [t \in Tasks |-> "start"]

\* line 118
SetLang(t) ==
    /\ pc[t] = "start"
    /\ textstat' = Some(set_lang(textstat[1], lang_for(call[t].text)))
    /\ pc' = [pc EXCEPT ![t] = "lang_set"]
    /\ UNCHANGED <<dbvars, env, IDEADENSITY_AVAILABLE, TEXTSTAT_AVAILABLE, depid, call, ret, log, prev>>

\* lines 119-125
Measure(t) ==
    /\ pc[t] = "lang_set"
    /\ call' = [call EXCEPT ![t].readability_scores =
                   Some(textstat_measure(call[t].text, textstat[1].lang))]
    /\ pc' = [pc EXCEPT ![t] = "measured"]
    /\ UNCHANGED <<dbvars, env, modvars, ret, log, prev>>

\* lines 150-177 and 282-292
Assemble(t) ==
    /\ pc[t] = "measured"
    /\ ret' = [ret EXCEPT ![t] = Some(scoring_result(call[t].cpidr_score, call[t].depid_score,
                                                     call[t].readability_scores[1]))]
    /\ pc' = [pc EXCEPT ![t] = "done"]
    /\ UNCHANGED <<dbvars, env, modvars, call, log, prev>>

NextConcurrent == \E t \in Tasks : SetLang(t) \/ Measure(t) \/ Assemble(t)

SpecConcurrent == InitConcurrent /\ [][NextConcurrent]_vars

\* what the call of task t returns when it runs alone from the start
Alone(t) ==
    scoring_result(call[t].cpidr_score, call[t].depid_score,
                   textstat_measure(call[t].text, lang_for(call[t].text)))

----------------------------------------------------------------------------
(* The combiner against the reference algorithm.                           *)

\* the sum of the weights of exactly the terms that were added
AddedWeight(wc, wd, wr, depid_density, readability) ==
    LET a1 == IF depid_density # None THEN FAdd(wc, wd) ELSE wc
    IN  IF "flesch_reading_ease" \in DOMAIN readability THEN FAdd(a1, wr) ELSE a1

\* the weighted sum over the weight of its terms, clamped; cpidr when that
\* weight is not positive
Reference(wc, wd, wr, cpidr_density, depid_density, readability) ==
    LET divisor == AddedWeight(wc, wd, wr, depid_density, readability)
        acc     == weighted_sum(wc, wd, wr, cpidr_density, depid_density, readability)
    IN  IF divisor > 0 THEN Clamp(0, One, FDiv(acc, divisor)) ELSE cpidr_density

\* C19: calculate_combined_density equals the reference algorithm: the sum of
\* cpidr*w_cpidr, depid*w_depid when depid is present and
\* clamp((90 - flesch)/90, 0, 1)*w_readability when flesch_reading_ease is
\* present, divided by the sum of the weights of exactly the terms added,
\* then clamped to [0,1]; a missing metric takes its weight out of the divisor.
C19_EqualsReference ==
    (CombineDone /\ WeightsNumeric) =>
        ret[1] = Ret(Reference(cpidr_weight.value, depid_weight.value,
                               readability_weight.value, call.cpidr_density,
                               call.depid_density, call.readability))

----------------------------------------------------------------------------
(* The length buckets of the signal score.                                 *)

\* the six adjustments with the word counts they are for: from lo up to,
\* but not including, hi; the last one has no upper end
LengthBuckets ==
    {[lo |-> 0, open |-> FALSE, hi |-> 200, delta |-> -1500],
     [lo |-> 200, open |-> FALSE, hi |-> 500, delta |-> -500],
     [lo |-> 500, open |-> FALSE, hi |-> 1000, delta |-> 500],
     [lo |-> 1000, open |-> FALSE, hi |-> 3000, delta |-> 1000],
     [lo |-> 3000, open |-> FALSE, hi |-> 5000, delta |-> 1200],
     [lo |-> 5000, open |-> TRUE, hi |-> 5000, delta |-> 1500]}

BucketsFor(n) == {b \in LengthBuckets : b.lo <= n /\ (b.open \/ n < b.hi)}

\* nothing but the length and the vocabulary bears on the score
PlainContent(c, url) ==
    /\ NonTrusted(url)
    /\ code_indicators(c) = 0 /\ ref_indicators(c) = 0
    /\ spam_count(c) = 0 /\ structural_patterns(c) <= 3

\* C20: for every content exactly one of the six length adjustments is
\* applied, the one of the first ascending threshold the word count is below:
\* <200 -0.15, <500 -0.05, <1000 +0.05, <3000 +0.10, <5000 +0.12, otherwise
\* +0.15; a word count equal to a threshold falls in the higher bucket.
C20_OneLengthBucket ==
    ScoreDone =>
        LET n == word_count(call.content)
        IN  /\ Cardinality(BucketsFor(n)) = 1
            /\ \A b \in BucketsFor(n) :
                 /\ length_adjustment(n) = b.delta
                 /\ PlainContent(call.content, call.url) =>
                      ret[1].outcome.value
                          = SCALE \div 2 + b.delta
                              + vocabulary_adjustment(unique_words(call.content), n)

\* C20 witness: a plain content of exactly 200 words gets -0.05, not -0.15
C20_Witness ==
    /\ ScoreDone
    /\ word_count(call.content) = 200
    /\ PlainContent(call.content, call.url)
    /\ ret[1].outcome.value = SCALE \div 2 - 500 + 500

----------------------------------------------------------------------------
(* The trusted-domain boost of the signal score.                           *)

\* the positions of the table entries found in a domain
TrustedMatches(domain) ==
    {k \in 1..Len(HIGH_TRUST_DOMAINS) : IsSubstring(HIGH_TRUST_DOMAINS[k][1], domain)}

\* the factor of the first of them in declaration order, 1.0 without any
FirstMatchFactor(domain) ==
    IF TrustedMatches(domain) = {} THEN SCALE
    ELSE HIGH_TRUST_DOMAINS[CHOOSE k \in TrustedMatches(domain) :
                               \A j \in TrustedMatches(domain) : k <= j][2]

\* the adjustments that come after the domain boost
LaterAdjustments(c) ==
    code_boost(code_indicators(c)) + ref_boost(ref_indicators(c))
        - spam_penalty(spam_count(c))
        + vocabulary_adjustment(unique_words(c), word_count(c))
        + structure_bonus(structural_patterns(c))

\* C21: at most one trusted-domain boost is applied per call: the first table
\* entry in declaration order that is a substring of the domain multiplies
\* the score as it stands after the length adjustment (not the base 0.5) and
\* before the code, reference, spam, vocabulary and structure adjustments;
\* without a matching entry the score is not multiplied.
C21_FirstMatchBoostsOnce ==
    ScoreDone =>
        LET domain   == _extract_domain(call.url)
            adjusted == SCALE \div 2 + length_adjustment(word_count(call.content))
        IN  ret[1].outcome.value
                = Clamp(0, SCALE,
                        (adjusted * FirstMatchFactor(domain)) \div SCALE
                            + LaterAdjustments(call.content))

\* C21 witness: github.com and nature.com are both found in the domain, the
\* content has code, citations and list items, and the score is the one
\* multiplied by github.com's 1.1 only: (0.5 + 0.05) * 1.1 + 0.06 + 0.1 + 0.05 + 0.05
C21_Witness ==
    /\ ScoreDone
    /\ Cardinality(TrustedMatches(_extract_domain(call.url))) = 2
    /\ word_count(call.content) \in 500..999
    /\ code_indicators(call.content) = 3 /\ ref_indicators(call.content) = 20
    /\ spam_count(call.content) = 0 /\ structural_patterns(call.content) = 4
    /\ ret[1].outcome.value = 6050 + 600 + 1000 + 500 + 500

----------------------------------------------------------------------------
(* The order of the stages of extract_from_url.                            *)

\* how often a collaborator was invoked
Invocations(name) == Cardinality({i \in 1..Len(log) : log[i] = name})

StageCalls == <<"_fetch_page", "trafilatura.extract", "trafilatura.extract_metadata">>

ScorerCalls == {"_calculate_signal_score", "cpidr", "depid", "textstat"}

ScorersRan == \E i \in 1..Len(log) : log[i] \in ScorerCalls

\* the collaborators invoked when a stage failed: the stages up to it, once
\* each, and the scorers only if it is the scoring that failed
LogAtFault(stage) ==
    CASE stage = "fetch" -> log = SubSeq(StageCalls, 1, 1)
      [] stage = "extract" -> log = SubSeq(StageCalls, 1, 2)
      [] stage = "metadata" -> log = StageCalls
      [] stage = "scoring" -> SubSeq(log, 1, 3) = StageCalls

\* C22: in every run of extract_from_url the page is fetched at most once,
\* extraction is attempted only after a non-empty fetch result, the signal
\* and density scorers run only after a non-empty extraction, and after a
\* failure at any stage no stage is attempted again: the degraded report is
\* returned directly.
C22_StagesInOrderNoRetry ==
    call.op = "extract_from_url" =>
        /\ \A i \in 1..Len(StageCalls) : Invocations(StageCalls[i]) <= 1
        /\ Invocations("_calculate_signal_score") <= 1
        /\ Invocations("trafilatura.extract") = 1 =>
              (call.html # None /\ ~call.html[1].empty)
        /\ ScorersRan =>
              (call.extracted # None /\ Chars(call.extracted[1]) # <<>>)
        /\ call.fault # None =>
              /\ pc = "done"
              /\ LogAtFault(call.fault[1].stage)
              /\ ret # None /\ ret[1].kind = "return"
              /\ "error" \in DOMAIN ret[1].value

\* C22 witness: the fetch gave a page, extraction gave nothing, and the run
\* ended there with the degraded report
C22_Witness ==
    /\ ExtractDone
    /\ call.fault = Some([stage |-> "extract", what |-> "nothing"])
    /\ log = <<"_fetch_page", "trafilatura.extract">>
    /\ call.html # None
    /\ ret[1].value.error = "No content extracted"

----------------------------------------------------------------------------
(* The report and the configuration of the combined density.               *)

\* C23: the report returned by extract_from_url is a function of the fetched
\* page and of the adapter outputs alone: once the scorers have run, it is
\* the success report built from the signal, CPIDR, DEPID and readability
\* scores, whatever CPIDR_WEIGHT, DEPID_WEIGHT, READABILITY_WEIGHT and
\* DENSITY_THRESHOLD are set to.
C23_ReportIgnoresConfiguration ==
    (ExtractDone /\ call.scores # None) =>
        LET scores == call.scores[1]
        IN  /\ ret[1].kind = "return"
            /\ \E s2 \in NearestHundredths(scores.signal_score) :
                  ret[1].value = success_report(call.url, call.title, call.extracted[1], s2,
                                     scores.cpidr_score, scores.depid_score,
                                     scores.readability_scores)

----------------------------------------------------------------------------
(* The scorer and its title argument.                                      *)

\* C24: the result of _calculate_signal_score does not depend on its title
\* argument: the score returned for a content, a url and a title is the score
\* of the same content and url under every other title.
C24_ScoreIgnoresTitle ==
    ScoreDone =>
        \A title \in Titles :
            ret[1].outcome = Ret(_calculate_signal_score(call.content, call.url, title))

\* C24 witness: a call whose title carries a spam word, on content whose
\* score lies strictly inside the unit interval
C24_Witness ==
    /\ ScoreDone
    /\ call.title = "Shocking"
    /\ call.content = QualityTestContent
    /\ ret[1].outcome.value > 0 /\ ret[1].outcome.value < SCALE

----------------------------------------------------------------------------
(* The fallback of the combiner.                                           *)

\* line 175 failing: the final 'return cpidr_density' is taken
fallback_taken(wc, wd, wr, depid_density, readability) ==
    ~(surviving_weight(wc, wd, wr, depid_density, readability) > 0)

\* C29: with the default weights, and with every configuration whose CPIDR
\* weight is positive and whose other weights are not negative, the weight
\* surviving the missing metrics is at least the CPIDR weight and the final
\* 'return cpidr_density' is not taken, whichever optional signals are missing.
C29_FallbackNeverTaken ==
    (/\ CombineDone
     /\ WeightsNumeric
     /\ cpidr_weight.value > 0
     /\ depid_weight.value >= 0
     /\ readability_weight.value >= 0)
        => /\ surviving_weight(cpidr_weight.value, depid_weight.value,
                               readability_weight.value, call.depid_density,
                               call.readability) >= cpidr_weight.value
           /\ ~fallback_taken(cpidr_weight.value, depid_weight.value,
                              readability_weight.value, call.depid_density,
                              call.readability)

----------------------------------------------------------------------------
(* parse_device_type, src/app/analytics_middleware.py:53-68.  A user agent *)
(* string is the set of words occurring in it and the case it is written   *)
(* in; str.lower() changes the case, and the substring test finds a lower  *)
(* case keyword only in lower case text.                                   *)

MobileWords == {"mobile", "android", "iphone"}

TabletWords == {"ipad", "tablet"}

DesktopWords == {"windows", "macintosh", "linux"}

BotWords == {"bot", "spider", "crawl"}

\* the words of the user agents explored: the keywords and one other word
UserAgentWords == MobileWords \cup TabletWords \cup DesktopWords \cup BotWords \cup {"mozilla"}

UserAgents ==
    {ua \in [words : SUBSET UserAgentWords, upper : BOOLEAN] :
        ua.words = {} => ~ua.upper}

\* the empty string
EmptyUserAgent == [words |-> {}, upper |-> FALSE]

\* str.lower()
lower(str) == [str EXCEPT !.upper = FALSE]

\* word in str, for a lower case word
contains(str, word) == ~str.upper /\ word \in str.words

contains_any(str, words) == \E w \in words : contains(str, w)

\* a classification that looks for the crawler words before the desktop ones
parse_device_type_bot_first(user_agent_str) ==
    IF user_agent_str = EmptyUserAgent THEN "unknown"
    ELSE LET ua == lower(user_agent_str)
         IN  IF contains_any(ua, MobileWords) THEN "mobile"
             ELSE IF contains_any(ua, TabletWords) THEN "tablet"
             ELSE IF contains_any(ua, BotWords) THEN "bot"
             ELSE IF contains_any(ua, DesktopWords) THEN "desktop"
             ELSE "unknown"

\* lines 53-68
parse_device_type(user_agent_str) ==
    IF user_agent_str = EmptyUserAgent THEN "unknown"
    ELSE LET ua == lower(user_agent_str)
         IN  IF contains_any(ua, MobileWords) THEN "mobile"
             ELSE IF contains_any(ua, TabletWords) THEN "tablet"
             ELSE IF contains_any(ua, DesktopWords) THEN "desktop"
             ELSE IF contains_any(ua, BotWords) THEN "bot"
             ELSE "unknown"

InitDevice ==
    /\ env = [n \in {} |-> ""]
    /\ AnalyticsIdle
    /\ ModuleLoaded
    /\ call \in [op : {"parse_device_type"}, user_agent_str : UserAgents]
    /\ ret = None
    /\ log = <<>>
    /\ prev = None
    /\ pc = "call"

ParseDeviceType ==
    /\ pc = "call" /\ call.op = "parse_device_type"
    /\ ret' = Some(Ret(parse_device_type(call.user_agent_str)))
    /\ pc' = "done"
    /\ UNCHANGED <<dbvars, env, modvars, call, log, prev>>

NextDevice == ParseDeviceType

SpecDevice == InitDevice /\ [][NextDevice]_vars

DeviceDone == pc = "done" /\ call.op = "parse_device_type"

\* the words of a user agent, whatever case they are written in
WordsOf(str) == str.words

\* the classes in the order they are tried, each with its keywords
DeviceOrder ==
    <<[type |-> "mobile", words |-> MobileWords],
      [type |-> "tablet", words |-> TabletWords],
      [type |-> "desktop", words |-> DesktopWords],
      [type |-> "bot", words |-> BotWords]>>

\* C30: parse_device_type answers with the first class, in the order mobile,
\* tablet, desktop, bot, one of whose keywords occurs in the user agent in any
\* case, and 'unknown' when none does: 'bot' only for a user agent with none
\* of mobile, android, iphone, ipad, tablet, windows, macintosh, linux,
\* 'tablet' only for one with none of mobile, android, iphone, and 'unknown'
\* for the empty user agent.
C30_FirstMatchWins ==
    DeviceDone =>
        LET ua   == WordsOf(call.user_agent_str)
            hits == {i \in 1..Len(DeviceOrder) : DeviceOrder[i].words \cap ua # {}}
            type == ret[1].value
        IN  /\ ret[1].kind = "return"
            /\ hits = {} => type = "unknown"
            /\ hits # {} =>
                  type = DeviceOrder[CHOOSE i \in hits : \A j \in hits : i <= j].type
            /\ type = "bot" =>
                  ua \cap (MobileWords \cup TabletWords \cup DesktopWords) = {}
            /\ type = "tablet" => ua \cap MobileWords = {}
            /\ call.user_agent_str = EmptyUserAgent => type = "unknown"

\* C30 witness: an upper case user agent naming a tablet, a desktop system
\* and a crawler, classified as a tablet
C30_Witness ==
    /\ DeviceDone
    /\ call.user_agent_str = [words |-> {"ipad", "linux", "bot", "mozilla"}, upper |-> TRUE]
    /\ ret[1] = Ret("tablet")

----------------------------------------------------------------------------
(* The lazily created engine and session factory,                          *)
(* src/app/analytics_middleware.py:14-38.  get_db is a synchronous          *)
(* dependency and runs in worker threads while dispatch runs in the event   *)
(* loop, so the callers are threads; a thread can be switched between any   *)
(* two statements.                                                          *)

\* the default of DATABASE_URL (line 22)
DefaultDatabaseUrl == "sqlite:///./analytics.db"

\* create_engine(url): a new engine, told from every other by its number
create_engine(url) ==
    [url |-> url, number |-> Invocations("create_engine") + 1]

\* sessionmaker(autocommit=False, autoflush=False, bind=engine)
sessionmaker(engine) == [bind |-> engine]

LazyCallers == {"get_engine", "get_session_local", "get_db"}

InitLazy ==
    /\ env = [n \in {} |-> ""]
    /\ ModuleLoaded
    /\ AnalyticsIdle
    /\ call \in [Tasks -> [op : LazyCallers]]
    /\ ret = [t \in Tasks |-> None]
    /\ pc = [t \in Tasks |-> "line 21"]
    /\ log = <<>>
    /\ prev = None

\* line 21: if _engine is None
TestEngine(t) ==
    /\ pc[t] = "line 21"
    /\ pc' = [pc EXCEPT ![t] = IF _engine = None THEN "line 22" ELSE "line 25"]
    /\ UNCHANGED <<env, modvars, dbvars, call, ret, log, prev>>

\* lines 22-23: _engine = create_engine(DATABASE_URL)
CreateEngine(t) ==
    /\ pc[t] = "line 22"
    /\ log' = Append(log, "create_engine")
    /\ _engine' = Some(create_engine(getenv("DATABASE_URL", DefaultDatabaseUrl)))
    /\ pc' = [pc EXCEPT ![t] = "line 24"]
    /\ UNCHANGED <<env, modvars, _SessionLocal, visitor_logs, utcnow, call, ret, prev>>

\* line 24: _SessionLocal = sessionmaker(..., bind=_engine)
MakeSessionLocal(t) ==
    /\ pc[t] = "line 24"
    /\ _SessionLocal' = Some(sessionmaker(_engine[1]))
    /\ pc' = [pc EXCEPT ![t] = "line 25"]
    /\ UNCHANGED <<env, modvars, _engine, visitor_logs, utcnow, call, ret, log, prev>>

\* line 25: return _engine, to the caller of get_engine or to line 29
ReturnEngine(t) ==
    /\ pc[t] = "line 25"
    /\ IF call[t].op = "get_engine"
       THEN /\ ret' = [ret EXCEPT ![t] = Some(Ret(_engine[1]))]
            /\ pc' = [pc EXCEPT ![t] = "done"]
       ELSE /\ pc' = [pc EXCEPT ![t] = "line 30"]
            /\ UNCHANGED ret
    /\ UNCHANGED <<env, modvars, dbvars, call, log, prev>>

\* line 30: return _SessionLocal, to the caller of get_session_local or to
\* line 34, where the factory is called and the session is yielded
ReturnSessionLocal(t) ==
    /\ pc[t] = "line 30"
    /\ ret' = [ret EXCEPT ![t] =
                 Some(IF call[t].op = "get_session_local" THEN Ret(_SessionLocal)
                      ELSE IF _SessionLocal = None THEN Raise("TypeError")
                      ELSE Ret([session |-> _SessionLocal[1]]))]
    /\ pc' = [pc EXCEPT ![t] = "done"]
    /\ UNCHANGED <<env, modvars, dbvars, call, log, prev>>

NextLazy ==
    \E t \in Tasks :
        \/ TestEngine(t)
        \/ CreateEngine(t)
        \/ MakeSessionLocal(t)
        \/ ReturnEngine(t)
        \/ ReturnSessionLocal(t)

SpecLazy == InitLazy /\ [][NextLazy]_vars

\* C27: in every interleaving of concurrent callers of get_engine,
\* get_session_local and get_db the engine is created at most once, and every
\* engine, session factory and session handed out is that engine or bound to it.
C27_OneEngine ==
    /\ Invocations("create_engine") <= 1
    /\ \A t \in Tasks :
         pc[t] = "done" =>
            /\ ret[t][1].kind = "return"
            /\ call[t].op = "get_engine" => ret[t][1].value.number = 1
            /\ call[t].op = "get_session_local" =>
                  /\ ret[t][1].value # None
                  /\ ret[t][1].value[1].bind.number = 1
            /\ call[t].op = "get_db" => ret[t][1].value.session.bind.number = 1

----------------------------------------------------------------------------
(* AnalyticsMiddleware.dispatch, src/app/analytics_middleware.py:71-105,   *)
(* over a sequence of requests served one after the other.  The lookup and *)
(* the commit can fail (SQLAlchemyError) and the downstream handler can    *)
(* raise.  The body has no await between the query and the commit.         *)

\* the requests served in one execution
MaxRequests == 2

\* the visitor table before the first request: rows written by the session
\* handling, two of them active under the same session id
VisitorTables ==
    {<<[session_id |-> "s1", is_active |-> TRUE, referrer |-> r1, last_activity |-> 0],
       [session_id |-> "s1", is_active |-> FALSE, referrer |-> "old", last_activity |-> 0],
       [session_id |-> "s2", is_active |-> TRUE, referrer |-> "", last_activity |-> 0],
       [session_id |-> "s2", is_active |-> TRUE, referrer |-> "", last_activity |-> 0]>>
        : r1 \in {"", "a"}}

\* a request: its sgnl_session cookie, if any, and its Referer header
Requests ==
    [sgnl_session : {None, Some(""), Some("s1"), Some("s2"), Some("s9")},
     referer : {"", "a", "b"}]

InitDispatch ==
    /\ env = [n \in {} |-> ""]
    /\ ModuleLoaded
    /\ _engine = None
    /\ _SessionLocal = None
    /\ visitor_logs \in VisitorTables
    /\ utcnow = 0
    /\ call = None
    /\ ret = None
    /\ log = <<>>
    /\ prev = None
    /\ pc = "idle"

\* a request arrives once the one before it is answered; the clock advances
Receive ==
    /\ pc \in {"idle", "done"}
    /\ utcnow < MaxRequests
    /\ \E request \in Requests : call' = Some(request)
    /\ utcnow' = utcnow + 1
    /\ ret' = None
    /\ log' = <<>>
    /\ pc' = "line 73"
    /\ UNCHANGED <<env, modvars, _engine, _SessionLocal, visitor_logs, prev>>

\* line 73: db = get_session_local()(), creating the engine at the first request
OpenSession ==
    /\ pc = "line 73"
    /\ IF _engine = None
       THEN LET engine == create_engine(getenv("DATABASE_URL", DefaultDatabaseUrl))
            IN  /\ _engine' = Some(engine)
                /\ _SessionLocal' = Some(sessionmaker(engine))
                /\ log' = Append(log, "create_engine")
       ELSE UNCHANGED <<_engine, _SessionLocal, log>>
    /\ pc' = "line 76"
    /\ UNCHANGED <<env, modvars, visitor_logs, utcnow, call, ret, prev>>

\* a visitor row whose referrer is replaced by every request that has one
updated_visitor_last_referrer(visitor, referrer, now) ==
    [visitor EXCEPT !.last_activity = now,
                    !.referrer = IF referrer # "" THEN referrer ELSE @]

\* lines 90-93
updated_visitor(visitor, referrer, now) ==
    [visitor EXCEPT !.last_activity = now,
                    !.referrer = IF referrer # "" /\ @ = "" THEN referrer ELSE @]

\* lines 84-87: the rows the query can return first
active_visitors(session_id) ==
    {i \in DOMAIN visitor_logs :
        visitor_logs[i].session_id = session_id /\ visitor_logs[i].is_active}

\* line 82: if session_id
has_session(request) == request.sgnl_session \notin {None, Some("")}

\* lines 76-95: the lookup, the update and the commit; a failing query or
\* commit leaves the table as it was and enters the except clause
Lookup ==
    /\ pc = "line 76"
    /\ IF ~has_session(call[1])
       THEN pc' = "line 97" /\ UNCHANGED visitor_logs
       ELSE \/ pc' = "line 102" /\ UNCHANGED visitor_logs
            \/ IF active_visitors(call[1].sgnl_session[1]) = {}
               THEN pc' = "line 97" /\ UNCHANGED visitor_logs
               ELSE \E i \in active_visitors(call[1].sgnl_session[1]) :
                      \/ /\ visitor_logs' = [visitor_logs EXCEPT ![i] =
                                updated_visitor(@, call[1].referer, utcnow)]
                         /\ pc' = "line 97"
                      \/ pc' = "line 102" /\ UNCHANGED visitor_logs
    /\ UNCHANGED <<env, modvars, _engine, _SessionLocal, utcnow, call, ret, log, prev>>

\* lines 97-99: the downstream handler answers or raises
Handle ==
    /\ pc = "line 97"
    /\ log' = Append(log, "call_next")
    /\ \/ ret' = Some(Ret("response")) /\ pc' = "done"
       \/ pc' = "line 102" /\ UNCHANGED ret
    /\ UNCHANGED <<env, modvars, dbvars, call, prev>>

\* lines 101-105: the except clause calls the downstream handler
Recover ==
    /\ pc = "line 102"
    /\ log' = Append(log, "call_next")
    /\ \E outcome \in {Ret("response"), Raise("Exception")} : ret' = Some(outcome)
    /\ pc' = "done"
    /\ UNCHANGED <<env, modvars, dbvars, call, prev>>

NextDispatch == Receive \/ OpenSession \/ Lookup \/ Handle \/ Recover

SpecDispatch == InitDispatch /\ [][NextDispatch]_vars

DispatchDone == pc = "done" /\ call # None /\ call[1] \in Requests

\* C25: dispatch invokes the downstream handler exactly once per request on
\* every path, whether the lookup or the commit failed before the handler ran
\* or the handler itself raised.
C25_HandlerCalledOnce ==
    DispatchDone => Invocations("call_next") = 1

----------------------------------------------------------------------------
(* What dispatch does to the visitor table.                                *)

\* the step is the lookup of a request whose cookie names an active visitor
LookupOfVisitor ==
    /\ pc = "line 76" /\ pc' # pc
    /\ has_session(call[1])
    /\ active_visitors(call[1].sgnl_session[1]) # {}

\* no row is created or deleted, only a row the request's cookie names is
\* changed and only in its referrer and last_activity, and a referrer that is
\* set stays as it is
OnlyTheVisitorRow ==
    /\ DOMAIN visitor_logs' = DOMAIN visitor_logs
    /\ \A i \in DOMAIN visitor_logs :
         /\ visitor_logs'[i].session_id = visitor_logs[i].session_id
         /\ visitor_logs'[i].is_active = visitor_logs[i].is_active
         /\ visitor_logs[i].referrer # "" =>
               visitor_logs'[i].referrer = visitor_logs[i].referrer
         /\ visitor_logs'[i] # visitor_logs[i] =>
               /\ pc = "line 76"
               /\ has_session(call[1])
               /\ i \in active_visitors(call[1].sgnl_session[1])
               /\ visitor_logs'[i].referrer \in {visitor_logs[i].referrer, call[1].referer}
    /\ Cardinality({i \in DOMAIN visitor_logs : visitor_logs'[i] # visitor_logs[i]}) <= 1

\* the row of the request's visitor now carries the time of the request
Refreshed ==
    \E i \in active_visitors(call[1].sgnl_session[1]) :
        /\ visitor_logs'[i].last_activity = utcnow
        /\ visitor_logs[i].referrer = "" =>
              visitor_logs'[i].referrer = call[1].referer

\* C26 as stated: over any sequence of requests dispatch modifies only the
\* active visitor row whose session_id equals the request's sgnl_session
\* cookie, creates and deletes no row, never overwrites a non-empty referrer,
\* and refreshes last_activity on every request of such a visitor.
C26_RefreshedOnEveryRequest ==
    [][OnlyTheVisitorRow /\ (LookupOfVisitor => Refreshed)]_vars

\* C26 amended: the same, with last_activity refreshed on every request of
\* such a visitor whose lookup and commit succeed; when either fails the
\* table is left as it was.
C26_RefreshedWhenCommitted ==
    [][/\ OnlyTheVisitorRow
       /\ LookupOfVisitor =>
             IF pc' = "line 97" THEN Refreshed ELSE visitor_logs' = visitor_logs]_vars

\* C26 witness: the second request of a visitor carries another Referer; the
\* referrer of the first request is kept and last_activity is the time of the
\* second
C26_Witness ==
    /\ pc = "line 97" /\ utcnow = 2
    /\ call[1] = [sgnl_session |-> Some("s2"), referer |-> "b"]
    /\ \E i \in active_visitors("s2") :
         visitor_logs[i].referrer = "a" /\ visitor_logs[i].last_activity = 2

----------------------------------------------------------------------------
(* PerformanceBenchmarker.benchmark_endpoint, src/benchmark.py:45-155.  The *)
(* request workers are asyncio tasks of one event loop: a task runs        *)
(* undisturbed from one await to the next, so every action is the code     *)
(* between two awaits and every state has each task at an await point, at  *)
(* the loop test or finished.  call holds the locals of benchmark_endpoint *)
(* that the workers share.                                                 *)

\* the requests sent before the duration is taken to have expired
MaxSent == 3

\* the response of the server, or the exception client.get / client.post raises
Responses == {[status_code |-> 200], [status_code |-> 500]}

\* what time.time() - req_start can be: zero on a coarse clock
Latencies == {0, 1}

InitBenchmark ==
    /\ env = [n \in {} |-> ""]
    /\ ModuleLoaded
    /\ AnalyticsIdle
    /\ call \in [op : {"benchmark_endpoint"}, method : {"GET", "POST", "PUT"},
                 total_requests : {0}, successful_requests : {0}, failed_requests : {0},
                 latencies : {<<>>}, errors : {<<>>},
                 semaphore : {MaxTasks}, expired : {FALSE}, sent : {0}]
    /\ ret = None
    /\ log = <<>>
    /\ prev = None
    /\ pc = [w \in Tasks |-> "line 114"]

\* lines 103-107 without the count of the request
counted_exception_uncounted(frame, outcome) ==
    IF outcome.kind = "raise"
    THEN [frame EXCEPT !.failed_requests = @ + 1,
                       !.errors = Append(@, "Exception")]
    ELSE IF outcome.value.status_code < 400
    THEN [frame EXCEPT !.total_requests = @ + 1, !.successful_requests = @ + 1]
    ELSE [frame EXCEPT !.total_requests = @ + 1, !.failed_requests = @ + 1,
                       !.errors = Append(@, "HTTP")]

\* lines 92-107: the counters and the errors once a request has ended
counted(frame, outcome) ==
    IF outcome.kind = "raise"
    THEN [frame EXCEPT !.failed_requests = @ + 1, !.total_requests = @ + 1,
                       !.errors = Append(@, "Exception")]
    ELSE IF outcome.value.status_code < 400
    THEN [frame EXCEPT !.total_requests = @ + 1, !.successful_requests = @ + 1]
    ELSE [frame EXCEPT !.total_requests = @ + 1, !.failed_requests = @ + 1,
                       !.errors = Append(@, "HTTP")]

\* lines 97, 101, 107: what make_request returns
returned_latency(outcome, req_latency) ==
    IF outcome.kind = "raise" THEN 0 ELSE req_latency

\* lines 116-118 and the end of 'async with': the latency is kept when it is
\* positive and the semaphore is released
after_request(frame, outcome, req_latency) ==
    LET latency == returned_latency(outcome, req_latency)
        c       == counted(frame, outcome)
    IN  [c EXCEPT !.latencies = IF latency > 0 THEN Append(@, latency) ELSE @,
                  !.semaphore = @ + 1]

\* line 114: the loop test; the duration, once expired, stays expired
LoopTest(w) ==
    /\ pc[w] = "line 114"
    /\ \E expired \in {call.expired \/ call.sent >= MaxSent, TRUE} :
         /\ call' = [call EXCEPT !.expired = expired]
         /\ pc' = [pc EXCEPT ![w] = IF expired THEN "done" ELSE "line 115"]
    /\ UNCHANGED <<env, modvars, dbvars, ret, log, prev>>

\* line 115 and lines 80-90: the semaphore is acquired and the request is
\* sent; a method other than GET and POST raises ValueError at once, and the
\* request ends without an await
Send(w) ==
    /\ pc[w] = "line 115"
    /\ call.semaphore > 0
    /\ LET entered == [call EXCEPT !.semaphore = @ - 1, !.sent = @ + 1]
       IN  IF call.method \in {"GET", "POST"}
           THEN /\ call' = entered
                /\ pc' = [pc EXCEPT ![w] = "line 83"]
           ELSE /\ call' = after_request(entered, Raise("ValueError"), 0)
                /\ pc' = [pc EXCEPT ![w] = "line 114"]
    /\ log' = Append(log, "make_request")
    /\ UNCHANGED <<env, modvars, dbvars, ret, prev>>

\* lines 83-118: the awaited request ends with a response or an exception
Respond(w) ==
    /\ pc[w] = "line 83"
    /\ \E outcome \in {Ret(r) : r \in Responses} \cup {Raise("ConnectError")},
          req_latency \in Latencies :
         call' = after_request(call, outcome, req_latency)
    /\ pc' = [pc EXCEPT ![w] = "line 114"]
    /\ log' = Append(log, "response")
    /\ UNCHANGED <<env, modvars, dbvars, ret, prev>>

\* lines 122-155: every worker has finished and the result is returned
Gather ==
    /\ \A w \in Tasks : pc[w] = "done"
    /\ ret = None
    /\ ret' = Some(Ret([total_requests |-> call.total_requests,
                        successful_requests |-> call.successful_requests,
                        failed_requests |-> call.failed_requests,
                        errors |-> SubSeq(call.errors, 1, Min(10, Len(call.errors)))]))
    /\ UNCHANGED <<env, modvars, dbvars, call, log, prev, pc>>

NextBenchmark == Gather \/ \E w \in Tasks : LoopTest(w) \/ Send(w) \/ Respond(w)

SpecBenchmark == InitBenchmark /\ [][NextBenchmark]_vars

\* the requests that ended with an exception
Raised == Cardinality({i \in 1..Len(call.errors) : call.errors[i] = "Exception"})

\* C28: under every interleaving of the request workers, whenever control is
\* at an await point and when the benchmark completes, total_requests equals
\* successful_requests + failed_requests, and the number of recorded latencies
\* never exceeds total_requests minus the number of requests that raised.
C28_CountersBalanced ==
    call.op = "benchmark_endpoint" =>
        /\ call.total_requests = call.successful_requests + call.failed_requests
        /\ Len(call.latencies) <= call.total_requests - Raised
        /\ ret # None =>
              /\ ret[1].kind = "return"
              /\ ret[1].value.total_requests
                    = ret[1].value.successful_requests + ret[1].value.failed_requests

\* C28 witness: the benchmark has completed after a request that raised, one
\* that was answered with an error status and one that succeeded, with two
\* requests in flight at once on the way
C28_Witness ==
    /\ call.op = "benchmark_endpoint"
    /\ ret # None
    /\ call.total_requests = MaxSent
    /\ call.successful_requests = 1
    /\ Raised = 1
    /\ Len(call.errors) = 2
    /\ Len(call.latencies) = 1
    /\ \E i \in 1..(Len(log) - 1) : log[i] = "make_request" /\ log[i + 1] = "make_request"

====
